---- MODULE Spec2Model ----
(***************************************************************************)
(* Video proctoring system: the in-memory session and event API            *)
(* (app/api/sessions, app/api/events, app/api/reports), the client hook    *)
(* useProctoringSession that scores a session, the Supabase-backed         *)
(* ProctoringService, and the detection loop of CVDetection together with  *)
(* the VideoInterface effect that turns detection results into events.     *)
(*                                                                         *)
(* Optional values (TypeScript `T | undefined`, `T | null`) are sequences  *)
(* of length 0 or 1: <<>> is undefined/null and <<v>> is the value v.      *)
(* Every `await` of the source is a separate step of the model.            *)
(***************************************************************************)
EXTENDS Integers, Sequences, FiniteSets, TLC

VARIABLES
    sessions,        \* sessions/route.ts: const sessions: ProctoringSession[]
    events,          \* events/route.ts: let events: DetectionEvent[]
    nextId,          \* source of fresh ids (Date.now() + Math.random())
    currentSession,  \* useProctoringSession: useState currentSession
    sessionEvents,   \* useProctoringSession: useState sessionEvents
    calls,           \* logDetectionEvent invocations of the hook in flight
    hookSerial,      \* history: no hook ingestion ever overlapped another
    dbSessions,      \* Supabase table proctoring_sessions
    dbEvents,        \* Supabase table detection_events
    dbStats,         \* Supabase table session_statistics
    svcCalls,        \* ProctoringService.logDetectionEvent invocations in flight
    svcSerial,       \* history: no service ingestion ever overlapped another
    now,             \* Date.now() of the browser, in milliseconds
    isRecording,     \* VideoProctoring: useState isRecording
    lastFocusTime,   \* CVDetection: useRef lastFocusTime
    lastFaceCount,   \* CVDetection: useRef lastFaceCount
    detectionResults,\* useCVDetection: useState detectionResults
    detectionStats,  \* useCVDetection: useState detectionStats
    frames,          \* the detection results performDetection has returned
    render,          \* whether the VideoInterface effect is due to run
    reruns,          \* effect runs caused by a re-render without a new result
    emitted,         \* the onDetectionEvent calls made by the effect
    isPaused,        \* VideoProctoring: useState isPaused
    cvEnabled,       \* VideoInterface: useState cvEnabled
    relatedEvents,   \* sessions/route.ts: let events: DetectionEvent[]
    response,        \* the last response of a route handler to another client
    globalSessions,  \* globalThis.sessions, as the reports route reads it
    globalEvents,    \* globalThis.events, as the reports route reads it
    error            \* useProctoringSession: useState error

apiVars == <<sessions, events, nextId, currentSession, sessionEvents, calls, hookSerial,
             error>>
svcVars == <<dbSessions, dbEvents, dbStats, svcCalls, svcSerial>>
cvVars == <<now, isRecording, lastFocusTime, lastFaceCount, detectionResults,
            detectionStats, frames, render, reruns, emitted, isPaused, cvEnabled>>
routeVars == <<relatedEvents, response, globalSessions, globalEvents>>
vars == <<apiVars, svcVars, cvVars, routeVars>>

----------------------------------------------------------------------------
(* Bounds of the model *)

MaxSessions == 2
MaxEvents == 2
MaxCalls == 2

----------------------------------------------------------------------------
(* Shared helpers *)

Max(a, b) == IF a >= b THEN a ELSE b

\* the (type, severity) pairs VideoInterface passes to onDetectionEvent
EventKinds ==
    { [type |-> "focus_lost", severity |-> "medium"],
      [type |-> "multiple_faces", severity |-> "high"],
      [type |-> "no_face", severity |-> "high"],
      [type |-> "eyes_closed", severity |-> "low"],
      [type |-> "suspicious_object", severity |-> "high"],
      [type |-> "suspicious_object", severity |-> "medium"] }

----------------------------------------------------------------------------
(* The in-memory API: app/api/sessions/route.ts and app/api/events/route.ts.
   A handler is an operator from the stores and the request body to the
   response code, the response data and the stores after the request. *)

validTypes ==
    {"focus_lost", "no_face", "multiple_faces", "phone_detected",
     "notes_detected", "suspicious_object", "eyes_closed"}

validSeverities == {"low", "medium", "high"}

\* sessions.findIndex((session) => session.id === sessionId); 0 stands for -1
FindSessionIndex(ss, sessionId) ==
    IF \E i \in 1..Len(ss) : ss[i].id = sessionId
    THEN CHOOSE i \in 1..Len(ss) :
            /\ ss[i].id = sessionId
            /\ \A j \in 1..(i - 1) : ss[j].id # sessionId
    ELSE 0

\* POST /api/sessions
SessionsPOST(ss, body, id, t) ==
    IF body.candidateName = <<>>
    THEN [code |-> 400, data |-> <<>>, sessions |-> ss]
    ELSE LET newSession ==
                 [id |-> id,
                  candidateName |-> body.candidateName[1],
                  startTime |-> t,
                  endTime |-> <<>>,
                  duration |-> 0,
                  status |-> "active",
                  integrityScore |-> 100,
                  videoQuality |-> IF body.videoQuality = <<>> THEN "720p"
                                   ELSE body.videoQuality[1],
                  detectionEnabled |-> IF body.detectionEnabled = <<>> THEN TRUE
                                       ELSE body.detectionEnabled[1]]
         IN [code |-> 201, data |-> <<newSession>>, sessions |-> Append(ss, newSession)]

\* a PUT that answers an unknown session id like a missing one
SessionsPUTUnknownAsInvalid(ss, body, t) ==
    IF body.sessionId = <<>> \/ FindSessionIndex(ss, body.sessionId[1]) = 0
    THEN [code |-> 400, data |-> <<>>, sessions |-> ss]
    ELSE LET sessionIndex == FindSessionIndex(ss, body.sessionId[1])
             s0 == ss[sessionIndex]
             s1 == IF body.status # <<>> THEN [s0 EXCEPT !.status = body.status[1]] ELSE s0
             s2 == IF body.duration # <<>> THEN [s1 EXCEPT !.duration = body.duration[1]] ELSE s1
             s3 == IF body.integrityScore # <<>>
                   THEN [s2 EXCEPT !.integrityScore = body.integrityScore[1]] ELSE s2
             s4 == IF body.status = <<"completed">> /\ s3.endTime = <<>>
                   THEN [s3 EXCEPT !.endTime = <<t>>] ELSE s3
         IN [code |-> 200, data |-> <<s4>>, sessions |-> [ss EXCEPT ![sessionIndex] = s4]]

\* a PUT that stamps endTime on every update to completed
SessionsPUTRestampingEnd(ss, body, t) ==
    IF body.sessionId = <<>>
    THEN [code |-> 400, data |-> <<>>, sessions |-> ss]
    ELSE LET sessionIndex == FindSessionIndex(ss, body.sessionId[1]) IN
         IF sessionIndex = 0
         THEN [code |-> 404, data |-> <<>>, sessions |-> ss]
         ELSE LET s0 == ss[sessionIndex]
                  s1 == IF body.status # <<>> THEN [s0 EXCEPT !.status = body.status[1]] ELSE s0
                  s2 == IF body.duration # <<>> THEN [s1 EXCEPT !.duration = body.duration[1]] ELSE s1
                  s3 == IF body.integrityScore # <<>>
                        THEN [s2 EXCEPT !.integrityScore = body.integrityScore[1]] ELSE s2
                  s4 == IF body.status = <<"completed">>
                        THEN [s3 EXCEPT !.endTime = <<t>>] ELSE s3
              IN [code |-> 200, data |-> <<s4>>, sessions |-> [ss EXCEPT ![sessionIndex] = s4]]

\* PUT /api/sessions: the assignment of line 118 as written, without a range check
SessionsPUT(ss, body, t) ==
    IF body.sessionId = <<>>
    THEN [code |-> 400, data |-> <<>>, sessions |-> ss]
    ELSE LET sessionIndex == FindSessionIndex(ss, body.sessionId[1]) IN
         IF sessionIndex = 0
         THEN [code |-> 404, data |-> <<>>, sessions |-> ss]
         ELSE LET s0 == ss[sessionIndex]
                  s1 == IF body.status # <<>> THEN [s0 EXCEPT !.status = body.status[1]] ELSE s0
                  s2 == IF body.duration # <<>> THEN [s1 EXCEPT !.duration = body.duration[1]] ELSE s1
                  s3 == IF body.integrityScore # <<>>
                        THEN [s2 EXCEPT !.integrityScore = body.integrityScore[1]] ELSE s2
                  s4 == IF body.status = <<"completed">> /\ s3.endTime = <<>>
                        THEN [s3 EXCEPT !.endTime = <<t>>] ELSE s3
              IN [code |-> 200, data |-> <<s4>>, sessions |-> [ss EXCEPT ![sessionIndex] = s4]]

\* POST /api/events
EventsPOST(es, body, id, t) ==
    IF body.sessionId = <<>> \/ body.type = <<>> \/ body.description = <<>> \/ body.severity = <<>>
    THEN [code |-> 400, data |-> <<>>, events |-> es]
    ELSE IF body.type[1] \notin validTypes
    THEN [code |-> 400, data |-> <<>>, events |-> es]
    ELSE IF body.severity[1] \notin validSeverities
    THEN [code |-> 400, data |-> <<>>, events |-> es]
    ELSE LET newEvent ==
                 [id |-> id,
                  sessionId |-> body.sessionId[1],
                  type |-> body.type[1],
                  timestamp |-> t,
                  description |-> body.description[1],
                  severity |-> body.severity[1],
                  confidence |-> body.confidence]
         IN [code |-> 201, data |-> <<newEvent>>, events |-> Append(es, newEvent)]

\* DELETE /api/sessions; es is the events array of the sessions module, the one
\* the handler filters
SessionsDELETE(ss, es, sessionId) ==
    IF sessionId = <<>>
    THEN [code |-> 400, sessions |-> ss, events |-> es]
    ELSE LET sessionIndex == FindSessionIndex(ss, sessionId[1]) IN
         IF sessionIndex = 0
         THEN [code |-> 404, sessions |-> ss, events |-> es]
         ELSE [code |-> 200,
               sessions |-> SubSeq(ss, 1, sessionIndex - 1)
                               \o SubSeq(ss, sessionIndex + 1, Len(ss)),
               events |-> SelectSeq(es, LAMBDA e : e.sessionId # sessionId[1])]

RECURSIVE SortByTimestamp(_, _)
\* Array.prototype.sort with (a, b) => a.timestamp - b.timestamp, or b - a when
\* descending; the sort is stable
SortByTimestamp(es, descending) ==
    IF es = <<>> THEN <<>>
    ELSE LET e == Head(es)
             rest == SortByTimestamp(Tail(es), descending)
             k == Cardinality({i \in 1..Len(rest) :
                                  IF descending THEN rest[i].timestamp > e.timestamp
                                  ELSE rest[i].timestamp < e.timestamp})
         IN SubSeq(rest, 1, k) \o <<e>> \o SubSeq(rest, k + 1, Len(rest))

\* a GET that pages through the matching events oldest first
EventsGETOldestFirst(es, query) ==
    LET filtered == query.sessionId # <<>> \/ query.type # <<>> \/ query.severity # <<>>
        filteredEvents ==
            SelectSeq(es, LAMBDA e :
                /\ query.sessionId # <<>> => e.sessionId = query.sessionId[1]
                /\ query.type # <<>> => e.type = query.type[1]
                /\ query.severity # <<>> => e.severity = query.severity[1])
        sorted == SortByTimestamp(filteredEvents, FALSE)
        last == IF query.offset + query.limit < Len(sorted)
                THEN query.offset + query.limit ELSE Len(sorted)
    IN [code |-> 200,
        data |-> SubSeq(sorted, query.offset + 1, last),
        total |-> Len(sorted),
        events |-> IF filtered THEN es ELSE sorted]

\* a GET that assigns the filtered array to the store: events = events.filter(...)
EventsGETFilteringStore(es, query) ==
    LET filteredEvents ==
            SelectSeq(es, LAMBDA e :
                /\ query.sessionId # <<>> => e.sessionId = query.sessionId[1]
                /\ query.type # <<>> => e.type = query.type[1]
                /\ query.severity # <<>> => e.severity = query.severity[1])
        sorted == SortByTimestamp(filteredEvents, TRUE)
        last == IF query.offset + query.limit < Len(sorted)
                THEN query.offset + query.limit ELSE Len(sorted)
    IN [code |-> 200,
        data |-> SubSeq(sorted, query.offset + 1, last),
        total |-> Len(sorted),
        events |-> sorted]

\* GET /api/events.  `let filteredEvents = events` is the stored array itself until
\* a filter replaces it by a new array, so without a filter the sort is a sort of
\* the store
EventsGET(es, query) ==
    LET filtered == query.sessionId # <<>> \/ query.type # <<>> \/ query.severity # <<>>
        filteredEvents ==
            SelectSeq(es, LAMBDA e :
                /\ query.sessionId # <<>> => e.sessionId = query.sessionId[1]
                /\ query.type # <<>> => e.type = query.type[1]
                /\ query.severity # <<>> => e.severity = query.severity[1])
        sorted == SortByTimestamp(filteredEvents, TRUE)
        last == IF query.offset + query.limit < Len(sorted)
                THEN query.offset + query.limit ELSE Len(sorted)
    IN [code |-> 200,
        data |-> SubSeq(sorted, query.offset + 1, last),
        total |-> Len(sorted),
        events |-> IF filtered THEN es ELSE sorted]

\* events.findIndex((event) => event.id === eventId); 0 stands for -1
FindEventIndex(es, eventId) ==
    IF \E i \in 1..Len(es) : es[i].id = eventId
    THEN CHOOSE i \in 1..Len(es) :
            /\ es[i].id = eventId
            /\ \A j \in 1..(i - 1) : es[j].id # eventId
    ELSE 0

\* a DELETE whose session branch empties the store: events = []
EventsDELETEEveryEvent(es, sessionId, eventId) ==
    IF eventId # <<>>
    THEN LET eventIndex == FindEventIndex(es, eventId[1]) IN
         IF eventIndex = 0
         THEN [code |-> 404, events |-> es]
         ELSE [code |-> 200,
               events |-> SubSeq(es, 1, eventIndex - 1) \o SubSeq(es, eventIndex + 1, Len(es))]
    ELSE IF sessionId # <<>>
    THEN [code |-> 200, events |-> <<>>]
    ELSE [code |-> 400, events |-> es]

\* DELETE /api/events
EventsDELETE(es, sessionId, eventId) ==
    IF eventId # <<>>
    THEN LET eventIndex == FindEventIndex(es, eventId[1]) IN
         IF eventIndex = 0
         THEN [code |-> 404, events |-> es]
         ELSE [code |-> 200,
               events |-> SubSeq(es, 1, eventIndex - 1) \o SubSeq(es, eventIndex + 1, Len(es))]
    ELSE IF sessionId # <<>>
    THEN [code |-> 200, events |-> SelectSeq(es, LAMBDA e : e.sessionId # sessionId[1])]
    ELSE [code |-> 400, events |-> es]

\* the query ApiClient.getEvents sends: limit 50, offset 0
EventsQuery(sessionId) ==
    [sessionId |-> sessionId, type |-> <<>>, severity |-> <<>>, limit |-> 50, offset |-> 0]

\* the body ApiClient.updateSession sends: { sessionId, ...updates }
UpdateBody(sessionId, status, duration, integrityScore) ==
    [sessionId |-> sessionId, status |-> status, duration |-> duration,
     integrityScore |-> integrityScore]

\* the body ApiClient.logEvent sends
LogEventBody(sessionId, kind) ==
    [sessionId |-> <<sessionId>>, type |-> <<kind.type>>,
     description |-> <<kind.type>>, severity |-> <<kind.severity>>,
     confidence |-> <<>>]

----------------------------------------------------------------------------
(* The client hook useProctoringSession (hooks/use-proctoring-session) as
   VideoProctoring drives it. *)

CallIds == 1..MaxCalls

IdleCall ==
    [pc |-> "idle", snap |-> <<>>, kind |-> <<>>, status |-> <<>>, newScore |-> <<>>,
     endTime |-> <<>>, resp |-> <<>>]

\* logDetectionEvent: const deduction = severity === "high" ? 15 : severity === "medium" ? 10 : 5
Deduction(severity) ==
    IF severity = "high" THEN 15 ELSE IF severity = "medium" THEN 10 ELSE 5

\* logDetectionEvent: Math.max(0, currentSession.integrityScore - deduction)
NewScore(snap, severity) == Max(0, snap.integrityScore - Deduction(severity))

\* setSessionEvents((prev) => [event, ...prev].slice(0, 50))
KeepLast50(es) == IF Len(es) > 50 THEN SubSeq(es, 1, 50) ELSE es

InFlight == {c \in CallIds : calls[c].pc # "idle"}

\* handleRecordingStart: if (!currentSession) await createSession(candidateName, "1080p", true)
CreateSession ==
    /\ currentSession = <<>>
    /\ Len(sessions) < MaxSessions
    /\ LET r == SessionsPOST(sessions,
                    [candidateName |-> <<"John Doe">>, videoQuality |-> <<"1080p">>,
                     detectionEnabled |-> <<TRUE>>], nextId, now)
       IN /\ sessions' = r.sessions
          /\ currentSession' = r.data
          /\ sessionEvents' = <<>>
    /\ nextId' = nextId + 1
    /\ error' = <<>>
    /\ UNCHANGED <<events, calls, hookSerial, svcVars, cvVars, routeVars>>

\* handleDetectionEvent -> logDetectionEvent up to the fetch of ApiClient.logEvent:
\* the callback reads the currentSession of the render that created it
LogCall(c, kind) ==
    /\ currentSession # <<>>
    /\ calls[c].pc = "idle"
    /\ Len(events) + Cardinality({d \in CallIds : calls[d].pc = "logEvent"}) < MaxEvents
    /\ calls' = [calls EXCEPT ![c] =
                    [pc |-> "logEvent", snap |-> currentSession, kind |-> <<kind>>,
                     status |-> <<>>, newScore |-> <<>>, endTime |-> <<>>,
                     resp |-> <<>>]]
    /\ hookSerial' = (hookSerial /\ InFlight = {})
    /\ UNCHANGED <<sessions, events, nextId, currentSession, sessionEvents, svcVars, cvVars, routeVars, error>>

\* POST /api/events is served; logDetectionEvent resumes after `await ApiClient.logEvent`,
\* computes newScore from the captured session and sends PUT /api/sessions
LogEvent(c) ==
    /\ calls[c].pc = "logEvent"
    /\ LET snap == calls[c].snap[1]
           kind == calls[c].kind[1]
           r == EventsPOST(events, LogEventBody(snap.id, kind), nextId, now)
       IN /\ events' = r.events
          /\ IF r.code = 201
             THEN /\ sessionEvents' = KeepLast50(r.data \o sessionEvents)
                  /\ calls' = [calls EXCEPT ![c].pc = "updateSession",
                                            ![c].newScore = <<NewScore(snap, kind.severity)>>]
                  /\ error' = <<>>
             ELSE /\ sessionEvents' = sessionEvents
                  /\ calls' = [calls EXCEPT ![c] = IdleCall]
                  /\ error' = <<"Failed to log event">>
          /\ nextId' = IF r.code = 201 THEN nextId + 1 ELSE nextId
    /\ UNCHANGED <<sessions, currentSession, hookSerial, svcVars, cvVars, routeVars>>

\* a catch that gives the session up when an event could not be logged
LogEventFailsEndingSession(c) ==
    /\ calls[c].pc = "logEvent"
    /\ calls' = [calls EXCEPT ![c] = IdleCall]
    /\ error' = <<"Failed to log event">>
    /\ currentSession' = <<>>
    /\ UNCHANGED <<sessions, events, nextId, sessionEvents, hookSerial,
                   svcVars, cvVars, routeVars>>

\* the fetch of ApiClient.logEvent rejects, or POST /api/events answers 500:
\* logDetectionEvent sets error and rethrows, handleDetectionEvent catches and
\* logs to the console
LogEventFails(c) ==
    /\ calls[c].pc = "logEvent"
    /\ calls' = [calls EXCEPT ![c] = IdleCall]
    /\ error' = <<"Failed to log event">>
    /\ UNCHANGED <<sessions, events, nextId, currentSession, sessionEvents, hookSerial,
                   svcVars, cvVars, routeVars>>

\* PUT /api/sessions is served for updateSession({ integrityScore: newScore }) or
\* updateSession({ status })
LogPut(c) ==
    /\ calls[c].pc = "updateSession"
    /\ LET snap == calls[c].snap[1]
           r == SessionsPUT(sessions,
                    UpdateBody(<<snap.id>>, calls[c].status, <<>>, calls[c].newScore), now)
       IN /\ sessions' = r.sessions
          /\ IF r.code = 200
             THEN /\ calls' = [calls EXCEPT ![c].pc = "setCurrentSession", ![c].resp = r.data]
                  /\ error' = error
             ELSE /\ calls' = [calls EXCEPT ![c] = IdleCall]
                  /\ error' = <<"Failed to update session">>
    /\ UNCHANGED <<events, nextId, currentSession, sessionEvents, hookSerial, svcVars, cvVars, routeVars>>

\* updateSession resumes after `await ApiClient.updateSession`: setCurrentSession(updatedSession)
LogDone(c) ==
    /\ calls[c].pc = "setCurrentSession"
    /\ currentSession' = calls[c].resp
    /\ calls' = [calls EXCEPT ![c] = IdleCall]
    /\ UNCHANGED <<sessions, events, nextId, sessionEvents, hookSerial, svcVars, cvVars, routeVars, error>>

\* VideoProctoring.getIntegrityScore: currentSession?.integrityScore || 100; the
\* left operand is falsy when there is no session and when the score is 0
getIntegrityScore ==
    IF currentSession = <<>> \/ currentSession[1].integrityScore = 0 THEN 100
    ELSE currentSession[1].integrityScore

----------------------------------------------------------------------------
(* Requests made to the API by any other client *)

\* the integrityScore values a PUT body carries
ScoreInputs == {-5, 150}

\* POST /api/sessions
PostSession(candidateName) ==
    /\ Len(sessions) < MaxSessions
    /\ LET r == SessionsPOST(sessions,
                    [candidateName |-> candidateName, videoQuality |-> <<>>,
                     detectionEnabled |-> <<>>], nextId, now)
       IN /\ sessions' = r.sessions
          /\ nextId' = IF r.code = 201 THEN nextId + 1 ELSE nextId
    /\ UNCHANGED <<events, currentSession, sessionEvents, calls, hookSerial, svcVars, cvVars, routeVars, error>>

\* PUT /api/sessions
PutSession(body) ==
    /\ sessions' = SessionsPUT(sessions, body, now).sessions
    /\ UNCHANGED <<events, nextId, currentSession, sessionEvents, calls, hookSerial,
                   svcVars, cvVars, routeVars, error>>

----------------------------------------------------------------------------
(* Report synthesis: app/api/reports/route.ts *)

CountSeverity(es, severity) == Len(SelectSeq(es, LAMBDA e : e.severity = severity))

\* generateIntegrityAnalysis: totalDeduction
totalDeduction(es) ==
    LET high == CountSeverity(es, "high")
        medium == CountSeverity(es, "medium")
        low == CountSeverity(es, "low")
    IN (IF high > 0 THEN high * 15 ELSE 0)
       + (IF medium > 0 THEN medium * 10 ELSE 0)
       + (IF low > 0 THEN low * 5 ELSE 0)

\* generateIntegrityAnalysis: const finalScore = Math.max(0, 100 - totalDeduction)
finalScore(es) == Max(0, 100 - totalDeduction(es))

\* GET /api/reports: events.filter((e) => e.sessionId === sessionId)
EventsOf(es, sessionId) == SelectSeq(es, LAMBDA e : e.sessionId = sessionId)

\* generateStatistics
generateStatistics(es) ==
    LET confidenceValues == SelectSeq(es, LAMBDA e : e.confidence # <<>> /\ e.confidence[1] # 0)
        Sum[i \in 0..Len(confidenceValues)] ==
            IF i = 0 THEN 0 ELSE Sum[i - 1] + confidenceValues[i].confidence[1]
    IN [totalEvents |-> Len(es),
        eventsBySeverity |-> [high |-> CountSeverity(es, "high"),
                              medium |-> CountSeverity(es, "medium"),
                              low |-> CountSeverity(es, "low")],
        eventsByType |-> [t \in {es[i].type : i \in 1..Len(es)} |->
                             Len(SelectSeq(es, LAMBDA e : e.type = t))],
        focusLossCount |-> Len(SelectSeq(es, LAMBDA e : e.type = "focus_lost")),
        suspiciousObjectCount |->
            Len(SelectSeq(es, LAMBDA e : e.type \in {"phone_detected", "notes_detected",
                                                      "suspicious_object"})),
        multipleFaceCount |-> Len(SelectSeq(es, LAMBDA e : e.type = "multiple_faces")),
        averageConfidence |-> IF Len(confidenceValues) > 0
                              THEN Sum[Len(confidenceValues)] \div Len(confidenceValues)
                              ELSE 0]

\* an analysis whose attention note is due from the third focus_lost event on
generateIntegrityAnalysisFromThree(es) ==
    LET high == CountSeverity(es, "high")
        medium == CountSeverity(es, "medium")
        low == CountSeverity(es, "low")
        CountType(type) == Len(SelectSeq(es, LAMBDA e : e.type = type))
        score == finalScore(es)
    IN [finalScore |-> score,
        deductions |->
            (IF high > 0 THEN <<[reason |-> "High severity violations",
                                 points |-> high * 15, count |-> high]>> ELSE <<>>)
         \o (IF medium > 0 THEN <<[reason |-> "Medium severity violations",
                                   points |-> medium * 10, count |-> medium]>> ELSE <<>>)
         \o (IF low > 0 THEN <<[reason |-> "Low severity violations",
                                points |-> low * 5, count |-> low]>> ELSE <<>>),
        recommendations |->
            (IF CountType("focus_lost") >= 3 THEN <<"frequent loss of focus">> ELSE <<>>)
         \o (IF CountType("phone_detected") > 0 THEN <<"mobile device detected">> ELSE <<>>)
         \o (IF CountType("multiple_faces") > 0 THEN <<"multiple faces detected">> ELSE <<>>)
         \o (IF CountType("notes_detected") > 0 THEN <<"notes detected">> ELSE <<>>)
         \o (IF score >= 90 THEN <<"excellent session integrity">>
             ELSE IF score >= 70 THEN <<"good session integrity">>
             ELSE <<"session integrity concerns">>)]

\* generateIntegrityAnalysis
generateIntegrityAnalysis(es) ==
    LET high == CountSeverity(es, "high")
        medium == CountSeverity(es, "medium")
        low == CountSeverity(es, "low")
        CountType(type) == Len(SelectSeq(es, LAMBDA e : e.type = type))
        score == finalScore(es)
    IN [finalScore |-> score,
        deductions |->
            (IF high > 0 THEN <<[reason |-> "High severity violations",
                                 points |-> high * 15, count |-> high]>> ELSE <<>>)
         \o (IF medium > 0 THEN <<[reason |-> "Medium severity violations",
                                   points |-> medium * 10, count |-> medium]>> ELSE <<>>)
         \o (IF low > 0 THEN <<[reason |-> "Low severity violations",
                                points |-> low * 5, count |-> low]>> ELSE <<>>),
        recommendations |->
            (IF CountType("focus_lost") > 3 THEN <<"frequent loss of focus">> ELSE <<>>)
         \o (IF CountType("phone_detected") > 0 THEN <<"mobile device detected">> ELSE <<>>)
         \o (IF CountType("multiple_faces") > 0 THEN <<"multiple faces detected">> ELSE <<>>)
         \o (IF CountType("notes_detected") > 0 THEN <<"notes detected">> ELSE <<>>)
         \o (IF score >= 90 THEN <<"excellent session integrity">>
             ELSE IF score >= 70 THEN <<"good session integrity">>
             ELSE <<"session integrity concerns">>)]

\* a timeline built from a sorted copy, [...events].sort(...): the argument array
\* keeps its order
generateTimelineOfCopy(es) ==
    LET sorted == SortByTimestamp(es, FALSE)
    IN [sorted |-> es,
        timeline |-> [i \in 1..Len(sorted) |->
                         [timestamp |-> sorted[i].timestamp,
                          event |-> sorted[i].description,
                          severity |-> sorted[i].severity]]]

\* generateTimeline: events.sort(...) sorts its argument in place, map builds the
\* timeline; sorted is the argument array after the call
generateTimeline(es) ==
    LET sorted == SortByTimestamp(es, FALSE)
    IN [sorted |-> sorted,
        timeline |-> [i \in 1..Len(sorted) |->
                         [timestamp |-> sorted[i].timestamp,
                          event |-> sorted[i].description,
                          severity |-> sorted[i].severity]]]

\* Date.prototype.toISOString of a time in milliseconds
toISOString(t) == <<"ISO 8601", t>>

\* generateCSVReport: the lines pushed, a line being its comma-separated cells
CSVLines(report) ==
    <<<<"Proctoring Session Report">>, <<"">>,
      <<"Session Information">>,
      <<"Candidate Name", report.session.candidateName>>,
      <<"Session ID", report.session.id>>,
      <<"Start Time", toISOString(report.session.startTime)>>,
      <<"End Time", IF report.session.endTime = <<>> THEN "N/A"
                    ELSE toISOString(report.session.endTime[1])>>,
      <<"Duration", report.session.duration \div 60, report.session.duration % 60>>,
      <<"Status", report.session.status>>,
      <<"Video Quality", report.session.videoQuality>>,
      <<"Final Integrity Score", report.integrityAnalysis.finalScore>>,
      <<"">>,
      <<"Detection Statistics">>,
      <<"Total Events", report.statistics.totalEvents>>,
      <<"High Severity Events", report.statistics.eventsBySeverity.high>>,
      <<"Medium Severity Events", report.statistics.eventsBySeverity.medium>>,
      <<"Low Severity Events", report.statistics.eventsBySeverity.low>>,
      <<"Focus Loss Events", report.statistics.focusLossCount>>,
      <<"Suspicious Object Events", report.statistics.suspiciousObjectCount>>,
      <<"Multiple Face Events", report.statistics.multipleFaceCount>>,
      <<"">>,
      <<"Events Timeline">>,
      <<"Timestamp", "Event Type", "Description", "Severity">>>>
    \o [i \in 1..Len(report.events) |->
           <<toISOString(report.events[i].timestamp), report.events[i].type,
             report.events[i].description, report.events[i].severity>>]
    \o <<<<"">>, <<"Recommendations">>>>
    \o [i \in 1..Len(report.integrityAnalysis.recommendations) |->
           <<report.integrityAnalysis.recommendations[i]>>]

\* a report that carries the time it was generated at
generateCSVReportDated(report) ==
    <<<<"Generated", toISOString(now)>>>> \o CSVLines(report)

\* generateCSVReport: lines.join("\n")
generateCSVReport(report) == CSVLines(report)

\* GET /api/reports: the report of a session and of its events
BuildReport(session, filteredEvents) ==
    LET timeline == generateTimeline(filteredEvents)
    IN [session |-> session,
        events |-> timeline.sorted,
        statistics |-> generateStatistics(filteredEvents),
        integrityAnalysis |-> generateIntegrityAnalysis(filteredEvents),
        timeline |-> timeline.timeline]

\* a report route whose timeline sorts the stored events themselves
ReportsGETSortingStore(gs, ge, sessionId, format) ==
    IF sessionId = <<>>
    THEN [code |-> 400, data |-> <<>>, sessions |-> gs, events |-> ge]
    ELSE LET sessions1 == IF gs = <<>> THEN <<>> ELSE gs[1]
             events1 == IF ge = <<>> THEN <<>> ELSE ge[1]
             sessionIndex == FindSessionIndex(sessions1, sessionId[1])
         IN IF sessionIndex = 0
            THEN [code |-> 404, data |-> <<>>, sessions |-> gs, events |-> ge]
            ELSE LET report == BuildReport(sessions1[sessionIndex],
                                           EventsOf(events1, sessionId[1]))
                 IN [code |-> 200,
                     data |-> IF format = "csv" THEN <<generateCSVReport(report)>>
                              ELSE <<report>>,
                     sessions |-> gs,
                     events |-> IF ge = <<>> THEN ge
                                ELSE <<SortByTimestamp(events1, FALSE)>>]

\* GET /api/reports.  gs and ge are globalThis.sessions and globalThis.events
\* (<<>> when undefined); sessions and events of the result are the two after the
\* request: filter gives a new array, so the sort of generateTimeline stays in it
ReportsGET(gs, ge, sessionId, format) ==
    IF sessionId = <<>>
    THEN [code |-> 400, data |-> <<>>, sessions |-> gs, events |-> ge]
    ELSE LET sessions1 == IF gs = <<>> THEN <<>> ELSE gs[1]
             events1 == IF ge = <<>> THEN <<>> ELSE ge[1]
             sessionIndex == FindSessionIndex(sessions1, sessionId[1])
         IN IF sessionIndex = 0
            THEN [code |-> 404, data |-> <<>>, sessions |-> gs, events |-> ge]
            ELSE LET report == BuildReport(sessions1[sessionIndex],
                                           EventsOf(events1, sessionId[1]))
                 IN [code |-> 200,
                     data |-> IF format = "csv" THEN <<generateCSVReport(report)>>
                              ELSE <<report>>,
                     sessions |-> gs, events |-> ge]

----------------------------------------------------------------------------
(* ProctoringService (lib/proctoring-service) over the Supabase tables of
   scripts/001_create_proctoring_tables.sql.  Every awaited query is one step. *)

MaxDbSessions == 1

IdleSvcCall == [pc |-> "idle", sessionId |-> 0, kind |-> <<>>, stats |-> <<>>, session |-> <<>>]

SvcInFlight == {c \in CallIds : svcCalls[c].pc # "idle"}

\* .eq("session_id", sessionId).single(): the row, or null unless exactly one row matches
SingleRow(rows) == IF Len(rows) = 1 THEN rows ELSE <<>>

\* createSession: the row the table defaults give, then the statistics row;
\* no caller holds the new id before createSession returns
SvcCreateSession ==
    /\ Len(dbSessions) < MaxDbSessions
    /\ LET id == Len(dbSessions) + 1 IN
       /\ dbSessions' = Append(dbSessions,
              [id |-> id, candidate_name |-> "John Doe", status |-> "active",
               video_quality |-> "720p", duration_seconds |-> 0, integrity_score |-> 100])
       /\ dbStats' = Append(dbStats,
              [session_id |-> id, total_focus_loss_events |-> 0,
               total_multiple_face_events |-> 0, total_suspicious_object_events |-> 0,
               total_no_face_events |-> 0, average_confidence |-> 0])
    /\ UNCHANGED <<dbEvents, svcCalls, svcSerial, apiVars, cvVars, routeVars>>

\* logDetectionEvent: insert into detection_events
SvcLogDetectionEvent(c, sessionId, kind, confidence) ==
    /\ svcCalls[c].pc = "idle"
    /\ \E i \in 1..Len(dbSessions) : dbSessions[i].id = sessionId
    /\ Len(dbEvents) < MaxEvents
    /\ dbEvents' = Append(dbEvents,
           [id |-> Len(dbEvents) + 1, session_id |-> sessionId, event_type |-> kind.type,
            severity |-> kind.severity, confidence |-> confidence])
    /\ svcCalls' = [svcCalls EXCEPT ![c] =
                       [pc |-> "statsSelect", sessionId |-> sessionId, kind |-> <<kind>>,
                        stats |-> <<>>, session |-> <<>>]]
    /\ svcSerial' = (svcSerial /\ SvcInFlight = {})
    /\ UNCHANGED <<dbSessions, dbStats, apiVars, cvVars, routeVars>>

\* updateSessionStatistics: select the statistics row; if (!stats) return
SvcStatsSelect(c) ==
    /\ svcCalls[c].pc = "statsSelect"
    /\ LET stats == SingleRow(SelectSeq(dbStats,
                        LAMBDA r : r.session_id = svcCalls[c].sessionId))
       IN svcCalls' = [svcCalls EXCEPT ![c].stats = stats,
                          ![c].pc = IF stats = <<>> THEN "scoreSelect" ELSE "statsUpdate"]
    /\ UNCHANGED <<dbSessions, dbEvents, dbStats, svcSerial, apiVars, cvVars, routeVars>>

\* updateSessionStatistics: the switch on eventType, applied to the row read before
StatisticsUpdates(row, stats, eventType) ==
    IF eventType = "focus_lost"
    THEN [row EXCEPT !.total_focus_loss_events = stats.total_focus_loss_events + 1]
    ELSE IF eventType = "multiple_faces"
    THEN [row EXCEPT !.total_multiple_face_events = stats.total_multiple_face_events + 1]
    ELSE IF eventType = "suspicious_object"
    THEN [row EXCEPT !.total_suspicious_object_events = stats.total_suspicious_object_events + 1]
    ELSE IF eventType = "no_face"
    THEN [row EXCEPT !.total_no_face_events = stats.total_no_face_events + 1]
    ELSE row

\* updateSessionStatistics: update(updates).eq("session_id", sessionId)
SvcStatsUpdate(c) ==
    /\ svcCalls[c].pc = "statsUpdate"
    /\ dbStats' = [i \in 1..Len(dbStats) |->
                     IF dbStats[i].session_id = svcCalls[c].sessionId
                     THEN StatisticsUpdates(dbStats[i], svcCalls[c].stats[1],
                                            svcCalls[c].kind[1].type)
                     ELSE dbStats[i]]
    /\ svcCalls' = [svcCalls EXCEPT ![c].pc = "scoreSelect"]
    /\ UNCHANGED <<dbSessions, dbEvents, svcSerial, apiVars, cvVars, routeVars>>

\* updateIntegrityScore: select integrity_score; if (!session) return
SvcScoreSelect(c) ==
    /\ svcCalls[c].pc = "scoreSelect"
    /\ LET session == SingleRow(SelectSeq(dbSessions,
                          LAMBDA r : r.id = svcCalls[c].sessionId))
       IN svcCalls' = [svcCalls EXCEPT ![c] =
                          IF session = <<>> THEN IdleSvcCall
                          ELSE [svcCalls[c] EXCEPT !.session = session, !.pc = "scoreUpdate"]]
    /\ UNCHANGED <<dbSessions, dbEvents, dbStats, svcSerial, apiVars, cvVars, routeVars>>

\* updateIntegrityScore: the switch on severity
scoreDeduction(severity) ==
    IF severity = "low" THEN 1
    ELSE IF severity = "medium" THEN 3
    ELSE IF severity = "high" THEN 5
    ELSE 0

\* updateIntegrityScore: update({ integrity_score: newScore })
SvcScoreUpdate(c) ==
    /\ svcCalls[c].pc = "scoreUpdate"
    /\ LET newScore == Max(0, svcCalls[c].session[1].integrity_score
                              - scoreDeduction(svcCalls[c].kind[1].severity))
       IN dbSessions' = [i \in 1..Len(dbSessions) |->
                           IF dbSessions[i].id = svcCalls[c].sessionId
                           THEN [dbSessions[i] EXCEPT !.integrity_score = newScore]
                           ELSE dbSessions[i]]
    /\ svcCalls' = [svcCalls EXCEPT ![c] = IdleSvcCall]
    /\ UNCHANGED <<dbEvents, dbStats, svcSerial, apiVars, cvVars, routeVars>>

----------------------------------------------------------------------------
(* Detection: CVDetection.runDetection and useCVDetection (cv-detection.tsx),
   and the detection-event effect of VideoInterface (video-interface).
   Times are milliseconds; a confidence is in hundredths (0.7 is 70); the
   faces array is represented by its length. *)

MaxFrames == 11
MaxFaceFrames == 6
MaxFaces == 3
MaxReruns == 1
MaxObjectFrames == 2

\* setInterval(runDetection, 1000)
DetectionInterval == 1000

\* Date.now() - lastFocusTime.current > 5000
FocusThreshold == 5000

\* obj.confidence > 0.7
ConfidenceThreshold == 70

\* isSuspiciousObject: const suspiciousObjects = [...]
suspiciousObjects ==
    {"cell phone", "mobile phone", "smartphone", "book", "notebook", "paper",
     "laptop", "tablet", "monitor", "screen"}

\* String.prototype.includes on the class names the model uses
Includes(className, part) ==
    \/ className = part
    \/ <<className, part>> \in
          { <<"cell phone", "phone">>, <<"mobile phone", "phone">>,
            <<"smartphone", "phone">>, <<"notebook", "book">>,
            <<"textbook", "book">>, <<"headphones", "phone">> }

isSuspiciousObject(className) == \E obj \in suspiciousObjects : Includes(className, obj)

\* useCVDetection: the initial detectionResults
InitialResults ==
    [faces |-> 0, objects |-> <<>>, eyesClosed |-> FALSE, lookingAway |-> FALSE,
     multipleFaces |-> FALSE]

\* performDetection: multipleFaces: faces.length > 1
Results(faces, lookingAway, eyesClosed, objects) ==
    [faces |-> faces, objects |-> objects, eyesClosed |-> eyesClosed,
     lookingAway |-> lookingAway, multipleFaces |-> faces > 1]

\* handleRecordingStart after `await createSession`: setIsRecording(true);
\* isRecording is a dependency of the detection-event effect
StartRecording ==
    /\ currentSession # <<>>
    /\ ~isRecording
    /\ isRecording' = TRUE
    /\ isPaused' = FALSE
    /\ render' = "fresh"
    /\ UNCHANGED <<now, lastFocusTime, lastFaceCount, detectionResults, detectionStats,
                   frames, reruns, emitted, cvEnabled, apiVars, svcVars, routeVars>>

\* runDetection: one tick of the detection interval with the result of performDetection.
\* The tick comes after the render of the previous result has run its effects.
\* The interval runs while isActive, which VideoInterface passes as isRecording && cvEnabled.
RunDetection(results, limit) ==
    /\ isRecording /\ cvEnabled
    /\ render # "fresh"
    /\ Len(frames) < limit
    /\ now' = now + DetectionInterval
    /\ detectionResults' = results
    /\ render' = "fresh"
    /\ frames' = Append(frames, [t |-> now', results |-> results])
    /\ LET focusLost == results.lookingAway /\ now' - lastFocusTime > FocusThreshold
           multiple == results.multipleFaces /\ results.faces # lastFaceCount
           suspicious == SelectSeq(results.objects,
                             LAMBDA obj : obj.confidence > ConfidenceThreshold
                                          /\ isSuspiciousObject(obj.class))
       IN /\ lastFocusTime' = IF results.lookingAway /\ ~focusLost THEN lastFocusTime ELSE now'
          /\ lastFaceCount' = IF multiple THEN results.faces ELSE lastFaceCount
          /\ detectionStats' =
                [totalFocusLossEvents |->
                     detectionStats.totalFocusLossEvents + (IF focusLost THEN 1 ELSE 0),
                 totalMultipleFaceEvents |->
                     detectionStats.totalMultipleFaceEvents + (IF multiple THEN 1 ELSE 0),
                 totalSuspiciousObjectEvents |->
                     detectionStats.totalSuspiciousObjectEvents + Len(suspicious)]
    /\ UNCHANGED <<isRecording, reruns, emitted, isPaused, cvEnabled, apiVars, svcVars, routeVars>>

RECURSIVE ObjectEvents(_)
\* detectionResults.objects.forEach: one suspicious_object call per object over the threshold
ObjectEvents(objects) ==
    IF objects = <<>> THEN <<>>
    ELSE (IF Head(objects).confidence > ConfidenceThreshold
          THEN <<[type |-> "suspicious_object",
                  severity |-> IF Includes(Head(objects).class, "phone") THEN "high"
                               ELSE "medium"]>>
          ELSE <<>>) \o ObjectEvents(Tail(objects))

\* the body of the detection-event effect: the onDetectionEvent calls, in order
EffectEvents(recording, results) ==
    IF ~recording THEN <<>>
    ELSE (IF results.lookingAway
          THEN <<[type |-> "focus_lost", severity |-> "medium"]>> ELSE <<>>)
      \o (IF results.multipleFaces
          THEN <<[type |-> "multiple_faces", severity |-> "high"]>> ELSE <<>>)
      \o (IF results.faces = 0
          THEN <<[type |-> "no_face", severity |-> "high"]>> ELSE <<>>)
      \o (IF results.eyesClosed
          THEN <<[type |-> "eyes_closed", severity |-> "low"]>> ELSE <<>>)
      \o ObjectEvents(results.objects)

\* useEffect(..., [detectionResults, isRecording, onDetectionEvent]).  Each call runs
\* handleDetectionEvent, whose setDetectionEvents re-renders VideoProctoring; the
\* re-render passes a new handleDetectionEvent, so the effect is due again.
DetectionEffect ==
    /\ \/ render = "fresh"
       \/ render = "again" /\ reruns < MaxReruns
    /\ LET calls1 == EffectEvents(isRecording, detectionResults) IN
       /\ emitted' = emitted \o
              [i \in 1..Len(calls1) |->
                  [type |-> calls1[i].type, severity |-> calls1[i].severity,
                   timestamp |-> now, frame |-> Len(frames)]]
       /\ render' = IF calls1 = <<>> THEN "idle" ELSE "again"
    /\ reruns' = IF render = "again" THEN reruns + 1 ELSE reruns
    /\ UNCHANGED <<now, isRecording, lastFocusTime, lastFaceCount, detectionResults,
                   detectionStats, frames, isPaused, cvEnabled, apiVars, svcVars, routeVars>>

----------------------------------------------------------------------------
(* The route handlers as any client of the API calls them, each leaving its
   response in `response`.  Ids are drawn from a counter, so the requests that
   create something stop at MaxIds. *)

MaxClock == 1

MaxLogLen == 4

MaxApiSessions == 1

MaxIds == 3

\* the ids a request names: 0 is never given to a session or an event
Ids == 0..(MaxApiSessions + 1)

OptIds == {<<>>} \cup {<<i>> : i \in Ids}

\* a response; request and data are kept for the event queries and the report
\* requests
Respond(op, request, code, data, repeat) ==
    <<[op |-> op, request |-> request, code |-> code, data |-> data, repeat |-> repeat]>>

\* time passes between two requests
Tick ==
    /\ now < MaxClock
    /\ now' = now + 1
    /\ UNCHANGED <<isRecording, lastFocusTime, lastFaceCount, detectionResults,
                   detectionStats, frames, render, reruns, emitted, isPaused, cvEnabled,
                   apiVars, svcVars, routeVars>>

\* POST /api/sessions
ReqPostSession(body) ==
    /\ Len(sessions) < MaxApiSessions
    /\ nextId <= MaxIds
    /\ LET r == SessionsPOST(sessions, body, nextId, now)
       IN /\ sessions' = r.sessions
          /\ nextId' = IF r.code = 201 THEN nextId + 1 ELSE nextId
          /\ response' = Respond("POST /api/sessions", <<>>, r.code, <<>>, FALSE)
    /\ UNCHANGED <<events, currentSession, sessionEvents, calls, hookSerial,
                   relatedEvents, globalSessions, globalEvents, svcVars, cvVars, error>>

\* PUT /api/sessions
ReqPutSession(body) ==
    /\ LET r == SessionsPUT(sessions, body, now)
       IN /\ sessions' = r.sessions
          /\ response' = Respond("PUT /api/sessions", <<>>, r.code, <<>>, FALSE)
    /\ UNCHANGED <<events, nextId, currentSession, sessionEvents, calls, hookSerial,
                   relatedEvents, globalSessions, globalEvents, svcVars, cvVars, error>>

\* DELETE /api/sessions: the handler filters the events array of its own module
ReqDeleteSession(sessionId) ==
    /\ LET r == SessionsDELETE(sessions, relatedEvents, sessionId)
       IN /\ sessions' = r.sessions
          /\ relatedEvents' = r.events
          /\ response' = Respond("DELETE /api/sessions", <<>>, r.code, <<>>, FALSE)
    /\ UNCHANGED <<events, nextId, currentSession, sessionEvents, calls, hookSerial,
                   globalSessions, globalEvents, svcVars, cvVars, error>>

\* POST /api/events
ReqPostEvent(body) ==
    /\ Len(events) < MaxEvents
    /\ nextId <= MaxIds
    /\ LET r == EventsPOST(events, body, nextId, now)
       IN /\ events' = r.events
          /\ nextId' = IF r.code = 201 THEN nextId + 1 ELSE nextId
          /\ response' = Respond("POST /api/events", <<>>, r.code, <<>>, FALSE)
    /\ UNCHANGED <<sessions, currentSession, sessionEvents, calls, hookSerial,
                   relatedEvents, globalSessions, globalEvents, svcVars, cvVars, error>>

\* GET /api/events
ReqGetEvents(query) ==
    /\ LET r == EventsGET(events, query)
       IN /\ events' = r.events
          /\ response' = Respond("GET /api/events", <<query>>, r.code,
                                 <<[data |-> r.data, total |-> r.total]>>, FALSE)
    /\ UNCHANGED <<sessions, nextId, currentSession, sessionEvents, calls, hookSerial,
                   relatedEvents, globalSessions, globalEvents, svcVars, cvVars, error>>

\* DELETE /api/events
ReqDeleteEvents(sessionId, eventId) ==
    /\ LET r == EventsDELETE(events, sessionId, eventId)
       IN /\ events' = r.events
          /\ response' = Respond("DELETE /api/events", <<>>, r.code,
                                 <<>>, FALSE)
    /\ UNCHANGED <<sessions, nextId, currentSession, sessionEvents, calls, hookSerial,
                   relatedEvents, globalSessions, globalEvents, svcVars, cvVars, error>>

\* GET /api/reports; repeat records that the request before was the same request
ReqGetReport(sessionId, format) ==
    /\ LET r == ReportsGET(globalSessions, globalEvents, sessionId, format)
           request == <<sessionId, format>>
       IN /\ globalSessions' = r.sessions
          /\ globalEvents' = r.events
          /\ response' = Respond("GET /api/reports", request, r.code, r.data,
                                 /\ response # <<>>
                                 /\ response[1].op = "GET /api/reports"
                                 /\ response[1].request = request)
    /\ UNCHANGED <<relatedEvents, apiVars, svcVars, cvVars>>

----------------------------------------------------------------------------
(* The recording as VideoProctoring runs it: the AI Detection toggle, pause and
   resume, and the detection-event effect calling handleDetectionEvent, which
   logs each event through the hook. *)

MaxRecFrames == 2

\* VideoInterface: onClick={() => setCvEnabled(!cvEnabled)} disabled={isRecording}
ToggleCv ==
    /\ ~isRecording
    /\ cvEnabled' = ~cvEnabled
    /\ UNCHANGED <<now, isRecording, lastFocusTime, lastFaceCount, detectionResults,
                   detectionStats, frames, render, reruns, emitted, isPaused,
                   apiVars, svcVars, routeVars>>

\* handleRecordingPause up to the fetch of ApiClient.updateSession; the button is
\* rendered while isRecording
PauseRecording(c) ==
    /\ isRecording
    /\ currentSession # <<>>
    /\ calls[c].pc = "idle"
    /\ isPaused' = ~isPaused
    /\ error' = <<>>
    /\ calls' = [calls EXCEPT ![c] =
                    [pc |-> "updateSession", snap |-> currentSession, kind |-> <<>>,
                     status |-> <<IF ~isPaused THEN "paused" ELSE "active">>,
                     newScore |-> <<>>, endTime |-> <<>>,
                     resp |-> <<>>]]
    /\ hookSerial' = (hookSerial /\ InFlight = {})
    /\ UNCHANGED <<sessions, events, nextId, currentSession, sessionEvents, now,
                   isRecording, lastFocusTime, lastFaceCount, detectionResults,
                   detectionStats, frames, render, reruns, emitted, cvEnabled,
                   svcVars, routeVars>>

\* the idle invocation slots, and the i-th of them
IdleSlots == {c \in CallIds : calls[c].pc = "idle"}

NthIdleSlot(i) ==
    CHOOSE c \in IdleSlots : Cardinality({d \in IdleSlots : d < c}) = i - 1

\* the detection-event effect with onDetectionEvent = handleDetectionEvent: every
\* call runs `if (currentSession) await logDetectionEvent(...)` up to its fetch
DetectionEventEffect ==
    /\ \/ render = "fresh"
       \/ render = "again" /\ reruns < MaxReruns
    /\ LET calls1 == EffectEvents(isRecording, detectionResults)
           logged == IF currentSession = <<>> THEN <<>> ELSE calls1
       IN /\ Cardinality(IdleSlots) >= Len(logged)
          /\ Len(events) + Cardinality({d \in CallIds : calls[d].pc = "logEvent"})
                + Len(logged) <= MaxEvents
          /\ emitted' = emitted \o
                 [i \in 1..Len(calls1) |->
                     [type |-> calls1[i].type, severity |-> calls1[i].severity,
                      timestamp |-> now, frame |-> Len(frames)]]
          /\ calls' = [c \in CallIds |->
                         IF \E i \in 1..Len(logged) : NthIdleSlot(i) = c
                         THEN LET i == CHOOSE j \in 1..Len(logged) : NthIdleSlot(j) = c
                              IN [pc |-> "logEvent", snap |-> currentSession,
                                  kind |-> <<[type |-> logged[i].type,
                                              severity |-> logged[i].severity]>>,
                                  status |-> <<>>, newScore |-> <<>>, endTime |-> <<>>,
                     resp |-> <<>>]
                         ELSE calls[c]]
          /\ hookSerial' = (hookSerial /\ (logged = <<>> \/ (InFlight = {} /\ Len(logged) = 1)))
          /\ render' = IF calls1 = <<>> THEN "idle" ELSE "again"
    /\ reruns' = IF render = "again" THEN reruns + 1 ELSE reruns
    /\ UNCHANGED <<sessions, events, nextId, currentSession, sessionEvents, now,
                   isRecording, lastFocusTime, lastFaceCount, detectionResults,
                   detectionStats, frames, isPaused, cvEnabled, svcVars, routeVars, error>>

\* the body ApiClient.updateSession sends for endSession:
\* { sessionId, status: "completed", endTime }
EndSessionBody(sessionId, endTime) ==
    [sessionId |-> <<sessionId>>, status |-> <<"completed">>, duration |-> <<>>,
     integrityScore |-> <<>>, endTime |-> endTime]

\* handleRecordingStop -> endSession -> updateSession({ status: "completed",
\* endTime: new Date() }) up to the fetch of ApiClient.updateSession; the button is
\* rendered while isRecording
StopRecording(c) ==
    /\ isRecording
    /\ currentSession # <<>>
    /\ calls[c].pc = "idle"
    /\ error' = <<>>
    /\ calls' = [calls EXCEPT ![c] =
                    [pc |-> "endSession", snap |-> currentSession, kind |-> <<>>,
                     status |-> <<"completed">>, newScore |-> <<>>, endTime |-> <<now>>,
                     resp |-> <<>>]]
    /\ hookSerial' = (hookSerial /\ InFlight = {})
    /\ UNCHANGED <<sessions, events, nextId, currentSession, sessionEvents, svcVars,
                   cvVars, routeVars>>

\* PUT /api/sessions is served for the update of endSession
EndSessionPut(c) ==
    /\ calls[c].pc = "endSession"
    /\ LET snap == calls[c].snap[1]
           r == SessionsPUT(sessions, EndSessionBody(snap.id, calls[c].endTime), now)
       IN /\ sessions' = r.sessions
          /\ IF r.code = 200
             THEN /\ calls' = [calls EXCEPT ![c].pc = "recordingStopped", ![c].resp = r.data]
                  /\ error' = error
             ELSE /\ calls' = [calls EXCEPT ![c] = IdleCall]
                  /\ error' = <<"Failed to update session">>
    /\ UNCHANGED <<events, nextId, currentSession, sessionEvents, hookSerial, svcVars,
                   cvVars, routeVars>>

\* updateSession resumes: setCurrentSession(updatedSession); endSession returns and
\* handleRecordingStop goes on: setIsRecording(false); setIsPaused(false)
RecordingStopped(c) ==
    /\ calls[c].pc = "recordingStopped"
    /\ currentSession' = calls[c].resp
    /\ calls' = [calls EXCEPT ![c] = IdleCall]
    /\ isRecording' = FALSE
    /\ isPaused' = FALSE
    /\ render' = "fresh"
    /\ UNCHANGED <<sessions, events, nextId, sessionEvents, hookSerial, now,
                   lastFocusTime, lastFaceCount, detectionResults, detectionStats,
                   frames, reruns, emitted, cvEnabled, svcVars, routeVars, error>>

----------------------------------------------------------------------------
(* Specifications *)

Init ==
    /\ sessions = <<>>
    /\ events = <<>>
    /\ nextId = 1
    /\ currentSession = <<>>
    /\ sessionEvents = <<>>
    /\ calls = [c \in CallIds |-> IdleCall]
    /\ hookSerial = TRUE
    /\ dbSessions = <<>>
    /\ dbEvents = <<>>
    /\ dbStats = <<>>
    /\ svcCalls = [c \in CallIds |-> IdleSvcCall]
    /\ svcSerial = TRUE
    /\ now = 0
    /\ isRecording = FALSE
    /\ lastFocusTime = 0
    /\ lastFaceCount = 1
    /\ detectionResults = InitialResults
    /\ detectionStats = [totalFocusLossEvents |-> 0, totalMultipleFaceEvents |-> 0,
                         totalSuspiciousObjectEvents |-> 0]
    /\ frames = <<>>
    /\ render = "idle"
    /\ reruns = 0
    /\ emitted = <<>>
    /\ isPaused = FALSE
    /\ cvEnabled = TRUE
    /\ relatedEvents = <<>>
    /\ response = <<>>
    /\ globalSessions = <<>>
    /\ globalEvents = <<>>
    /\ error = <<>>

\* the hook as VideoProctoring drives it
HookNext ==
    \/ CreateSession
    \/ \E c \in CallIds, kind \in EventKinds : LogCall(c, kind)
    \/ \E c \in CallIds : LogEvent(c)
    \/ \E c \in CallIds : LogPut(c)
    \/ \E c \in CallIds : LogDone(c)

SpecHook == Init /\ [][HookNext]_vars

\* the hook together with other clients of the API
Next ==
    \/ HookNext
    \/ \E candidateName \in {<<>>, <<"Jane Roe">>} : PostSession(candidateName)
    \/ \E sessionId \in {<<>>} \cup {<<i>> : i \in 1..(MaxSessions + 1)},
          integrityScore \in {<<>>} \cup {<<v>> : v \in ScoreInputs} :
          PutSession(UpdateBody(sessionId, <<>>, <<>>, integrityScore))

Spec == Init /\ [][Next]_vars

\* ProctoringService
ServiceNext ==
    \/ SvcCreateSession
    \/ \E c \in CallIds, sessionId \in 1..MaxDbSessions, kind \in EventKinds :
          SvcLogDetectionEvent(c, sessionId, kind, <<>>)
    \/ \E c \in CallIds : SvcStatsSelect(c)
    \/ \E c \in CallIds : SvcStatsUpdate(c)
    \/ \E c \in CallIds : SvcScoreSelect(c)
    \/ \E c \in CallIds : SvcScoreUpdate(c)

SpecService == Init /\ [][ServiceNext]_vars

\* the confidence argument of logDetectionEvent, in hundredths: none, 0.00, 0.80
Confidences == {<<>>, <<0>>, <<80>>}

\* ProctoringService logging events that carry a confidence
ConfidenceNext ==
    \/ SvcCreateSession
    \/ \E c \in CallIds, sessionId \in 1..MaxDbSessions, confidence \in Confidences :
          SvcLogDetectionEvent(c, sessionId, [type |-> "focus_lost", severity |-> "medium"],
                               confidence)
    \/ \E c \in CallIds : SvcStatsSelect(c)
    \/ \E c \in CallIds : SvcStatsUpdate(c)
    \/ \E c \in CallIds : SvcScoreSelect(c)
    \/ \E c \in CallIds : SvcScoreUpdate(c)

SpecConfidence == Init /\ [][ConfidenceNext]_vars

\* gaze: one face in every frame, the gaze-away flag varies
FocusNext ==
    \/ CreateSession
    \/ StartRecording
    \/ \E lookingAway \in BOOLEAN :
          RunDetection(Results(1, lookingAway, FALSE, <<>>), MaxFrames)
    \/ DetectionEffect

SpecFocus == Init /\ [][FocusNext]_vars

\* presence: the frame has no face or one face
AbsenceNext ==
    \/ CreateSession
    \/ StartRecording
    \/ \E faces \in 0..1 : RunDetection(Results(faces, FALSE, FALSE, <<>>), MaxFrames)
    \/ DetectionEffect

SpecAbsence == Init /\ [][AbsenceNext]_vars

\* face count: 0..MaxFaces faces in a frame
FacesNext ==
    \/ CreateSession
    \/ StartRecording
    \/ \E faces \in 0..MaxFaces :
          RunDetection(Results(faces, FALSE, FALSE, <<>>), MaxFaceFrames)
    \/ DetectionEffect

SpecFaces == Init /\ [][FacesNext]_vars

\* generateSimulatedObjectDetection: the objects a frame can hold
SimulatedObjects ==
    <<[class |-> "cell phone", confidence |-> 80],
      [class |-> "book", confidence |-> 75],
      [class |-> "laptop", confidence |-> 90]>>

\* each object is pushed or not, in this order
ObjectFrames ==
    {SelectSeq(SimulatedObjects, LAMBDA obj : obj.class \in classes) :
        classes \in SUBSET {"cell phone", "book", "laptop"}}

\* objects: one face looking at the screen, 0..3 objects in a frame
ObjectsNext ==
    \/ CreateSession
    \/ StartRecording
    \/ \E objects \in ObjectFrames :
          RunDetection(Results(1, FALSE, FALSE, objects), MaxObjectFrames)
    \/ DetectionEffect

SpecObjects == Init /\ [][ObjectsNext]_vars

\* a recording: the toggle, start, pause and resume, detection and ingestion
RecordingNext ==
    \/ CreateSession
    \/ ToggleCv
    \/ StartRecording
    \/ \E c \in CallIds : PauseRecording(c)
    \/ \E lookingAway \in BOOLEAN :
          RunDetection(Results(1, lookingAway, FALSE, <<>>), MaxRecFrames)
    \/ DetectionEventEffect
    \/ \E c \in CallIds : LogEvent(c)
    \/ \E c \in CallIds : LogPut(c)
    \/ \E c \in CallIds : LogDone(c)

SpecRecording == Init /\ [][RecordingNext]_vars

\* a recording whose ingestions can fail
FailureNext ==
    \/ CreateSession
    \/ StartRecording
    \/ \E lookingAway \in BOOLEAN :
          RunDetection(Results(1, lookingAway, FALSE, <<>>), MaxRecFrames)
    \/ DetectionEventEffect
    \/ \E c \in CallIds : LogEvent(c)
    \/ \E c \in CallIds : LogEventFails(c)
    \/ \E c \in CallIds : LogPut(c)
    \/ \E c \in CallIds : LogDone(c)

SpecFailure == Init /\ [][FailureNext]_vars

\* a recording that is paused, resumed, stopped and started again before the
\* first detection frame: the effect runs on the initial results
LifecycleNext ==
    \/ CreateSession
    \/ StartRecording
    \/ \E c \in CallIds : PauseRecording(c)
    \/ \E c \in CallIds : StopRecording(c)
    \/ \E c \in CallIds : EndSessionPut(c)
    \/ \E c \in CallIds : RecordingStopped(c)
    \/ DetectionEventEffect
    \/ \E c \in CallIds : LogEvent(c)
    \/ \E c \in CallIds : LogPut(c)
    \/ \E c \in CallIds : LogDone(c)

SpecLifecycle == Init /\ [][LifecycleNext]_vars

\* the scores a session in progress can have before it reaches 0: 100 less 15,
\* 10 or 5 per event
ScoreStarts == {100 - 5 * k : k \in 0..19}

\* the session createSession made, at one of these scores
SessionAt(score) ==
    [SessionsPOST(<<>>, [candidateName |-> <<"John Doe">>, videoQuality |-> <<"1080p">>,
                         detectionEnabled |-> <<TRUE>>], 1, 0).data[1]
        EXCEPT !.integrityScore = score]

\* a session in progress: the events logged so far have lowered its score and
\* DELETE /api/events has cleared its log
InitScore ==
    /\ \E score \in ScoreStarts :
          /\ sessions = <<SessionAt(score)>>
          /\ currentSession = <<SessionAt(score)>>
    /\ events = <<>>
    /\ nextId = 2
    /\ sessionEvents = <<>>
    /\ calls = [c \in CallIds |-> IdleCall]
    /\ hookSerial = TRUE
    /\ dbSessions = <<>>
    /\ dbEvents = <<>>
    /\ dbStats = <<>>
    /\ svcCalls = [c \in CallIds |-> IdleSvcCall]
    /\ svcSerial = TRUE
    /\ now = 0
    /\ isRecording = FALSE
    /\ lastFocusTime = 0
    /\ lastFaceCount = 1
    /\ detectionResults = InitialResults
    /\ detectionStats = [totalFocusLossEvents |-> 0, totalMultipleFaceEvents |-> 0,
                         totalSuspiciousObjectEvents |-> 0]
    /\ frames = <<>>
    /\ render = "idle"
    /\ reruns = 0
    /\ emitted = <<>>
    /\ isPaused = FALSE
    /\ cvEnabled = TRUE
    /\ relatedEvents = <<>>
    /\ response = <<>>
    /\ globalSessions = <<>>
    /\ globalEvents = <<>>
    /\ error = <<>>

\* the events of the session go on being logged
ScoreNext ==
    \/ \E c \in CallIds, kind \in EventKinds : LogCall(c, kind)
    \/ \E c \in CallIds : LogEvent(c)
    \/ \E c \in CallIds : LogPut(c)
    \/ \E c \in CallIds : LogDone(c)

SpecScore == InitScore /\ [][ScoreNext]_vars


\* the request bodies and queries of the clients of the API
SessionBodies ==
    {[candidateName |-> c, videoQuality |-> q, detectionEnabled |-> <<>>] :
        c \in {<<>>, <<"Jane Roe">>}, q \in {<<>>, <<"4k">>}}

PutBodies ==
    {UpdateBody(<<>>, <<"paused">>, <<>>, <<>>)} \cup
    {UpdateBody(<<id>>, status, <<>>, <<>>) :
        id \in Ids, status \in {<<"paused">>, <<"invalid">>}}

EventBody(sessionId, type, severity) ==
    [sessionId |-> sessionId, type |-> type, description |-> <<"description">>,
     severity |-> severity, confidence |-> <<>>]

EventBodies ==
    {EventBody(id, <<"focus_lost">>, <<"medium">>) : id \in OptIds} \cup
    {EventBody(<<1>>, <<"yawning">>, <<"low">>),
     EventBody(<<1>>, <<"focus_lost">>, <<"critical">>),
     EventBody(<<1>>, <<>>, <<"low">>)}

Queries == {EventsQuery(id) : id \in OptIds}

Formats == {"json", "csv"}

\* the API under the requests of its clients
ApiNext ==
    \/ Tick
    \/ \E body \in SessionBodies : ReqPostSession(body)
    \/ \E body \in PutBodies : ReqPutSession(body)
    \/ \E sessionId \in OptIds : ReqDeleteSession(sessionId)
    \/ \E body \in EventBodies : ReqPostEvent(body)
    \/ \E query \in Queries : ReqGetEvents(query)
    \/ \E sessionId \in OptIds : ReqDeleteEvents(sessionId, <<>>)
    \/ \E eventId \in {<<i>> : i \in 0..MaxIds} : ReqDeleteEvents(<<>>, eventId)
    \/ \E sessionId \in OptIds : ReqGetReport(sessionId, "json")

SpecApi == Init /\ [][ApiNext]_vars

\* the queries of a client that filters and pages: limit and offset are the
\* numbers Number.parseInt gives
PageQueries ==
    [sessionId : {<<>>, <<1>>}, type : {<<>>, <<"focus_lost">>},
     severity : {<<>>, <<"medium">>}, limit : {0, 1, 50}, offset : {0, 1}]

\* an event that matches every filter of PageQueries and, for each filter, one
\* that it excludes
PageBodies ==
    {EventBody(<<1>>, <<"focus_lost">>, <<"medium">>),
     EventBody(<<2>>, <<"focus_lost">>, <<"medium">>),
     EventBody(<<1>>, <<"eyes_closed">>, <<"medium">>),
     EventBody(<<1>>, <<"focus_lost">>, <<"low">>)}

\* event ingestion and event queries
QueryNext ==
    \/ Tick
    \/ \E body \in PageBodies : ReqPostEvent(body)
    \/ \E query \in PageQueries : ReqGetEvents(query)

SpecQuery == Init /\ [][QueryNext]_vars

\* two sessions side by side: sessions are created, updated and deleted, events
\* are ingested and deleted by session
IndependenceNext ==
    \/ \E candidateName \in {<<"Jane Roe">>} : PostSession(candidateName)
    \/ \E body \in PutBodies : ReqPutSession(body)
    \/ \E sessionId \in OptIds : ReqDeleteSession(sessionId)
    \/ \E body \in EventBodies : ReqPostEvent(body)
    \/ \E sessionId \in OptIds : ReqDeleteEvents(sessionId, <<>>)

SpecIndependence == Init /\ [][IndependenceNext]_vars

\* the updates of a client that ends sessions: the body may carry an endTime of
\* the client's clock, a time the server's clock does not show
EndTimeBodies ==
    [sessionId : OptIds, status : {<<>>, <<"active">>, <<"completed">>},
     duration : {<<>>}, integrityScore : {<<>>}, endTime : {<<>>, <<MaxClock + 1>>}]

\* sessions are created, updated and deleted as time passes
EndTimeNext ==
    \/ Tick
    \/ \E body \in SessionBodies : ReqPostSession(body)
    \/ \E body \in EndTimeBodies : ReqPutSession(body)
    \/ \E sessionId \in OptIds : ReqDeleteSession(sessionId)

SpecEndTime == Init /\ [][EndTimeNext]_vars

\* the stores the reports route can find on globalThis: undefined, or arrays of
\* sessions and of events
ReportSessions(n) ==
    [i \in 1..n |->
        [id |-> i, candidateName |-> "Jane Roe", startTime |-> 0, endTime |-> <<>>,
         duration |-> 0, status |-> "active", integrityScore |-> 100,
         videoQuality |-> "720p", detectionEnabled |-> TRUE]]

EventShapes ==
    [sessionId : 1..MaxSessions,
     kind : {[type |-> "focus_lost", severity |-> "medium"],
             [type |-> "eyes_closed", severity |-> "low"]},
     timestamp : 0..MaxClock]

ReportEvents(shapes) ==
    [i \in 1..Len(shapes) |->
        [id |-> MaxSessions + i, sessionId |-> shapes[i].sessionId,
         type |-> shapes[i].kind.type, timestamp |-> shapes[i].timestamp,
         description |-> shapes[i].kind.type, severity |-> shapes[i].kind.severity,
         confidence |-> <<>>]]

InitReport ==
    /\ sessions = <<>>
    /\ events = <<>>
    /\ nextId = 1
    /\ currentSession = <<>>
    /\ sessionEvents = <<>>
    /\ calls = [c \in CallIds |-> IdleCall]
    /\ hookSerial = TRUE
    /\ dbSessions = <<>>
    /\ dbEvents = <<>>
    /\ dbStats = <<>>
    /\ svcCalls = [c \in CallIds |-> IdleSvcCall]
    /\ svcSerial = TRUE
    /\ now = 0
    /\ isRecording = FALSE
    /\ lastFocusTime = 0
    /\ lastFaceCount = 1
    /\ detectionResults = InitialResults
    /\ detectionStats = [totalFocusLossEvents |-> 0, totalMultipleFaceEvents |-> 0,
                         totalSuspiciousObjectEvents |-> 0]
    /\ frames = <<>>
    /\ render = "idle"
    /\ reruns = 0
    /\ emitted = <<>>
    /\ isPaused = FALSE
    /\ cvEnabled = TRUE
    /\ relatedEvents = <<>>
    /\ response = <<>>
    /\ globalSessions \in {<<>>} \cup {<<ReportSessions(n)>> : n \in 0..MaxSessions}
    /\ globalEvents \in {<<>>} \cup
           {<<ReportEvents(shapes)>> :
               shapes \in UNION {[1..n -> EventShapes] : n \in 0..MaxEvents}}
    /\ error = <<>>

\* report generation over the stores found on globalThis
ReportNext ==
    \/ Tick
    \/ \E sessionId \in OptIds, format \in Formats : ReqGetReport(sessionId, format)

SpecReport == InitReport /\ [][ReportNext]_vars

\* the events of a log that the recommendations tell apart: the effect logs a
\* phone as suspicious_object with the description `${obj.class} detected in frame`
LogKinds ==
    {[type |-> "focus_lost", severity |-> "medium",
      description |-> "Candidate looking away from screen"],
     [type |-> "multiple_faces", severity |-> "high",
      description |-> "2 faces detected in frame"],
     [type |-> "suspicious_object", severity |-> "high",
      description |-> "cell phone detected in frame"],
     [type |-> "phone_detected", severity |-> "high",
      description |-> "phone detected"],
     [type |-> "notes_detected", severity |-> "medium",
      description |-> "notes detected"],
     [type |-> "eyes_closed", severity |-> "low",
      description |-> "Candidate appears to have eyes closed"]}

\* the event log of session 1 made of the given kinds
LogOf(kinds) ==
    [i \in 1..Len(kinds) |->
        [id |-> 1 + i, sessionId |-> 1, type |-> kinds[i].type, timestamp |-> 0,
         description |-> kinds[i].description, severity |-> kinds[i].severity,
         confidence |-> <<>>]]

\* the stores found on globalThis hold one session and a log of up to MaxLogLen
\* events
InitAnalysis ==
    /\ sessions = <<>>
    /\ events = <<>>
    /\ nextId = 1
    /\ currentSession = <<>>
    /\ sessionEvents = <<>>
    /\ calls = [c \in CallIds |-> IdleCall]
    /\ hookSerial = TRUE
    /\ dbSessions = <<>>
    /\ dbEvents = <<>>
    /\ dbStats = <<>>
    /\ svcCalls = [c \in CallIds |-> IdleSvcCall]
    /\ svcSerial = TRUE
    /\ now = 0
    /\ isRecording = FALSE
    /\ lastFocusTime = 0
    /\ lastFaceCount = 1
    /\ detectionResults = InitialResults
    /\ detectionStats = [totalFocusLossEvents |-> 0, totalMultipleFaceEvents |-> 0,
                         totalSuspiciousObjectEvents |-> 0]
    /\ frames = <<>>
    /\ render = "idle"
    /\ reruns = 0
    /\ emitted = <<>>
    /\ isPaused = FALSE
    /\ cvEnabled = TRUE
    /\ relatedEvents = <<>>
    /\ response = <<>>
    /\ globalSessions = <<ReportSessions(1)>>
    /\ globalEvents \in
           {<<LogOf(kinds)>> : kinds \in UNION {[1..n -> LogKinds] : n \in 0..MaxLogLen}}
    /\ error = <<>>

\* the JSON report of the session
AnalysisNext == ReqGetReport(<<1>>, "json")

SpecAnalysis == InitAnalysis /\ [][AnalysisNext]_vars

----------------------------------------------------------------------------
(* Properties *)

RECURSIVE DeductionSum(_)
\* 15 per high, 10 per medium and 5 per low severity event
DeductionSum(es) ==
    IF es = <<>> THEN 0
    ELSE (IF Head(es).severity = "high" THEN 15
          ELSE IF Head(es).severity = "medium" THEN 10 ELSE 5) + DeductionSum(Tail(es))

\* the frames whose results the detection-event effect has run on
Processed == IF render = "fresh" THEN Len(frames) - 1 ELSE Len(frames)

\* the onDetectionEvent calls of one type
EmittedOf(type) == SelectSeq(emitted, LAMBDA e : e.type = type)

\* the number of onDetectionEvent calls of one type made for the k-th frame
EmittedAt(type, k) == Len(SelectSeq(emitted, LAMBDA e : e.type = type /\ e.frame = k))

RECURSIVE DebounceFires(_, _, _, _)
\* the frames at which a debounced, re-arming rule with the given threshold fires:
\* active[k] is the frame's condition, last the time the condition last was false
\* or the rule last fired
DebounceFires(active, k, last, threshold) ==
    IF k > Len(frames) THEN {}
    ELSE IF active[k]
         THEN IF frames[k].t - last >= threshold
              THEN {k} \cup DebounceFires(active, k + 1, frames[k].t, threshold)
              ELSE DebounceFires(active, k + 1, last, threshold)
         ELSE DebounceFires(active, k + 1, frames[k].t, threshold)

\* C1: every session's integrityScore is an integer between 0 and 100
ScoreBound ==
    \A i \in 1..Len(sessions) :
        sessions[i].integrityScore \in Int /\ sessions[i].integrityScore \in 0..100

\* C2: no step increases the integrityScore of a session, and a session that a step
\* creates starts at 100
ScoreNeverIncreases ==
    [][\A j \in 1..Len(sessions') :
          IF \E i \in 1..Len(sessions) : sessions[i].id = sessions'[j].id
          THEN \A i \in 1..Len(sessions) :
                  sessions[i].id = sessions'[j].id
                      => sessions'[j].integrityScore <= sessions[i].integrityScore
          ELSE sessions'[j].integrityScore = 100]_vars

\* C3: after events have been ingested one at a time, the score of the session is
\* max(0, 100 - S), S summing 15 per high, 10 per medium and 5 per low severity
\* event, whichever of the two scorers ingested them and in whichever order
ScoreDeterminism ==
    /\ (hookSerial /\ InFlight = {}) =>
          \A i \in 1..Len(sessions) :
              sessions[i].integrityScore
                  = Max(0, 100 - DeductionSum(EventsOf(events, sessions[i].id)))
    /\ (svcSerial /\ SvcInFlight = {}) =>
          \A i \in 1..Len(dbSessions) :
              dbSessions[i].integrity_score
                  = Max(0, 100 - DeductionSum(SelectSeq(dbEvents,
                                     LAMBDA e : e.session_id = dbSessions[i].id)))

\* C4: once overlapping ingestions of one session have all completed, its score is
\* max(0, 100 - the deductions of all ingested events)
NoLostUpdates ==
    (~hookSerial /\ InFlight = {}) =>
        \A i \in 1..Len(sessions) :
            LET ingested == EventsOf(events, sessions[i].id) IN
            sessions[i].integrityScore = Max(0, 100 - DeductionSum(ingested))

\* C5: with no ingestion in flight, the finalScore the report recomputes from the
\* event log of a session is the session's live integrityScore
LedgerConsistency ==
    InFlight = {} =>
        \A i \in 1..Len(sessions) :
            finalScore(EventsOf(events, sessions[i].id)) = sessions[i].integrityScore

\* C6: focus_lost is emitted for a frame exactly when the gaze has been away for
\* 5 seconds or more since the last focused frame or the last focus_lost
FocusDebounce ==
    LET away == [k \in 1..Len(frames) |-> frames[k].results.lookingAway]
        fires == DebounceFires(away, 1, 0, 5000)
    IN \A k \in 1..Processed :
           EmittedAt("focus_lost", k) = IF k \in fires THEN 1 ELSE 0

\* C7: 11 frames one second apart, the gaze away in each, give exactly two
\* focus_lost events, at 5 s and at 10 s
ElevenAwayFrames ==
    (/\ Len(frames) = 11
     /\ render # "fresh"
     /\ \A k \in 1..11 : frames[k].results.lookingAway /\ frames[k].t = 1000 * k)
    => LET lost == EmittedOf("focus_lost") IN
       /\ Len(lost) = 2
       /\ lost[1].timestamp = 5000
       /\ lost[2].timestamp = 10000

\* C8: no_face is emitted for a frame exactly when the face set has been empty for
\* 10 seconds or more since a face was last seen or the last no_face; a frame with
\* a face emits none
AbsenceDebounce ==
    LET absent == [k \in 1..Len(frames) |-> frames[k].results.faces = 0]
        fires == DebounceFires(absent, 1, 0, 10000)
    IN \A k \in 1..Processed :
           EmittedAt("no_face", k) = IF k \in fires THEN 1 ELSE 0

\* C9: multiple_faces is emitted for a frame only if its face count is above 1 and
\* differs from the previous frame's, and at most once over a run of frames with
\* the same face count
EdgeTrigger ==
    LET faces == [k \in 0..Len(frames) |-> IF k = 0 THEN 1 ELSE frames[k].results.faces] IN
    /\ \A k \in 1..Processed :
           EmittedAt("multiple_faces", k) > 0 => faces[k] > 1 /\ faces[k] # faces[k - 1]
    /\ \A i, j \in 1..Processed :
           (i <= j /\ faces[i] > 1 /\ \A k \in i..j : faces[k] = faces[i])
               => Len(SelectSeq(emitted, LAMBDA e : e.type = "multiple_faces"
                                                   /\ e.frame \in i..j)) <= 1

\* C10: lastFaceCount is the face count of the last frame, and the face counts
\* 1,1,2,2,1,2 give multiple_faces at the 3rd and the 6th frame and at no other
FaceCountSequence ==
    /\ Len(frames) > 0 => lastFaceCount = frames[Len(frames)].results.faces
    /\ (/\ Len(frames) = 6
        /\ render # "fresh"
        /\ [k \in 1..6 |-> frames[k].results.faces] = <<1, 1, 2, 2, 1, 2>>)
       => {k \in 1..6 : EmittedAt("multiple_faces", k) > 0} = {3, 6}

\* C11: with no call in flight, every event the effect emitted has been appended to
\* the session's event log exactly once and has been deducted from its score
\* exactly once
ExactlyOnce ==
    InFlight = {} =>
        \A i \in 1..Len(sessions) :
            LET log == EventsOf(events, sessions[i].id) IN
            /\ Len(log) = Len(emitted)
            /\ \A k \in 1..Len(log) :
                   log[k].type = emitted[k].type /\ log[k].severity = emitted[k].severity
            /\ sessions[i].integrityScore
                   = Max(0, 100 - DeductionSum([k \in 1..Len(emitted) |-> emitted[k]]))

\* C12: once the logDetectionEvent calls of the service have all completed, each
\* counter of a session's statistics row is the number of events of its type in
\* the session's event log
StatisticsComplete ==
    SvcInFlight = {} =>
        \A i \in 1..Len(dbStats) :
            LET count(type) ==
                    Len(SelectSeq(dbEvents, LAMBDA e : e.session_id = dbStats[i].session_id
                                                       /\ e.event_type = type))
            IN /\ dbStats[i].total_focus_loss_events = count("focus_lost")
               /\ dbStats[i].total_multiple_face_events = count("multiple_faces")
               /\ dbStats[i].total_suspicious_object_events = count("suspicious_object")
               /\ dbStats[i].total_no_face_events = count("no_face")

\* C13: while the status of a session is paused, no step appends an event to its
\* event log and no step lowers its score
NothingWhilePaused ==
    [][\A i \in 1..Len(sessions) :
          sessions[i].status = "paused" =>
              /\ EventsOf(events', sessions[i].id) = EventsOf(events, sessions[i].id)
              /\ \A j \in 1..Len(sessions') :
                     sessions'[j].id = sessions[i].id
                         => sessions'[j].integrityScore = sessions[i].integrityScore]_vars

\* C14: in a recording started with AI detection off, no frame is processed, no
\* event is emitted and none is logged
NothingWhenDisabled ==
    (isRecording /\ ~cvEnabled) =>
        /\ frames = <<>>
        /\ emitted = <<>>
        /\ events = <<>>
        /\ \A c \in CallIds : calls[c].kind = <<>>

\* the step's request was answered by the handler op
Answered(op) == response' # <<>> /\ response'[1].op = op

\* C15: after a DELETE of a session that succeeded, no GET /api/events returns an
\* event of that session, and every event of another session is still stored
CascadeDelete ==
    [][\A sid \in Ids :
          (/\ Answered("DELETE /api/sessions")
           /\ response'[1].code = 200
           /\ ReqDeleteSession(<<sid>>)) =>
              /\ \A query \in Queries :
                     LET data == EventsGET(events', query).data
                     IN \A k \in 1..Len(data) : data[k].sessionId # sid
              /\ \A i \in 1..Len(events) :
                     events[i].sessionId # sid
                         => \E j \in 1..Len(events') : events'[j] = events[i]]_vars

\* the values of the enums of a request
SessionStatuses == {"active", "paused", "completed", "terminated"}

VideoQualities == {"720p", "1080p"}

InvalidSessionBody(body) ==
    \/ body.candidateName = <<>>
    \/ body.videoQuality # <<>> /\ body.videoQuality[1] \notin VideoQualities

InvalidEventBody(body) ==
    \/ body.sessionId = <<>> \/ body.type = <<>>
    \/ body.description = <<>> \/ body.severity = <<>>
    \/ body.type[1] \notin validTypes
    \/ body.severity[1] \notin validSeverities

\* the step's request was answered 400 and changed no stored session or event
Rejected == response'[1].code = 400 /\ sessions' = sessions /\ events' = events

\* C16: a create or update request with a missing required field or an unknown
\* enum value is answered 400 and changes neither store, and the status of every
\* stored session is one of active, paused, completed, terminated
ValidationNoEffect ==
    /\ [][/\ \A body \in SessionBodies :
                 (/\ Answered("POST /api/sessions")
                  /\ InvalidSessionBody(body)
                  /\ ReqPostSession(body)) => Rejected
          /\ \A body \in PutBodies :
                 (/\ Answered("PUT /api/sessions")
                  /\ \/ body.sessionId = <<>>
                     \/ /\ FindSessionIndex(sessions, body.sessionId[1]) # 0
                        /\ body.status # <<>>
                        /\ body.status[1] \notin SessionStatuses
                  /\ ReqPutSession(body)) => Rejected
          /\ \A body \in EventBodies :
                 (/\ Answered("POST /api/events")
                  /\ InvalidEventBody(body)
                  /\ ReqPostEvent(body)) => Rejected]_vars
    /\ [](\A i \in 1..Len(sessions) : sessions[i].status \in SessionStatuses)

\* the step's request was answered 404 and changed no stored session or event
NotFound ==
    /\ response'[1].code = 404
    /\ sessions' = sessions
    /\ events' = events
    /\ UNCHANGED <<relatedEvents, globalSessions, globalEvents>>

\* C17: a PUT or DELETE of a session with an unknown session id, a DELETE of an
\* event with an unknown event id and a report of an unknown session id are
\* answered 404 and change no stored session or event
NotFoundDistinct ==
    [][/\ \A body \in PutBodies :
              (/\ Answered("PUT /api/sessions")
               /\ body.sessionId # <<>>
               /\ FindSessionIndex(sessions, body.sessionId[1]) = 0
               /\ ReqPutSession(body)) => NotFound
       /\ \A id \in Ids :
              (/\ Answered("DELETE /api/sessions")
               /\ FindSessionIndex(sessions, id) = 0
               /\ ReqDeleteSession(<<id>>)) => NotFound
       /\ \A id \in 0..MaxIds :
              (/\ Answered("DELETE /api/events")
               /\ FindEventIndex(events, id) = 0
               /\ ReqDeleteEvents(<<>>, <<id>>)) => NotFound
       /\ \A id \in Ids, format \in Formats :
              (/\ Answered("GET /api/reports")
               /\ response'[1].request = <<<<id>>, format>>
               /\ FindSessionIndex(sessions, id) = 0
               /\ ReqGetReport(<<id>>, format)) => NotFound]_vars

\* a PUT naming an unknown session id was answered 404 while a session and an
\* event were stored
NotFoundWitness ==
    /\ response # <<>>
    /\ response[1].op = "PUT /api/sessions"
    /\ response[1].code = 404
    /\ sessions # <<>>
    /\ events # <<>>

\* C18: a CSV report requested again for the same session, nothing having been
\* ingested or updated since the first, is answered with the same lines
ReportIdempotent ==
    [][\A sid \in OptIds :
          (/\ Answered("GET /api/reports")
           /\ response # <<>>
           /\ response[1].op = "GET /api/reports"
           /\ response[1].request = <<sid, "csv">>
           /\ response'[1].request = <<sid, "csv">>
           /\ ReqGetReport(sid, "csv"))
          => /\ response'[1].code = response[1].code
             /\ response'[1].data = response[1].data]_vars

\* the events of a stored log that the timeline's sort has to reorder
OutOfOrder(es) ==
    \E i, j \in 1..Len(es) : i < j /\ es[i].timestamp > es[j].timestamp

\* a CSV report of a session with events stored out of order was generated a
\* second time, at a later time than the first
ReportIdempotentWitness ==
    /\ response # <<>>
    /\ response[1].op = "GET /api/reports"
    /\ response[1].code = 200
    /\ response[1].repeat
    /\ response[1].request[2] = "csv"
    /\ now > 0
    /\ globalEvents # <<>>
    /\ OutOfOrder(EventsOf(globalEvents[1], response[1].request[1][1]))

\* C19: a report request, JSON or CSV, changes no stored session and no stored
\* event, nor the order of the stored events
ReportPureRead ==
    [][\A sid \in OptIds, format \in Formats :
          (/\ Answered("GET /api/reports")
           /\ response'[1].request = <<sid, format>>
           /\ ReqGetReport(sid, format))
              => /\ sessions' = sessions
                 /\ events' = events
                 /\ relatedEvents' = relatedEvents
                 /\ globalSessions' = globalSessions
                 /\ globalEvents' = globalEvents]_vars

\* a JSON report was generated whose events are in another order than the stored
\* events of the session
ReportPureReadWitness ==
    /\ response # <<>>
    /\ response[1].op = "GET /api/reports"
    /\ response[1].code = 200
    /\ response[1].request[2] = "json"
    /\ globalEvents # <<>>
    /\ LET stored == EventsOf(globalEvents[1], response[1].request[1][1])
       IN OutOfOrder(stored) /\ response[1].data[1].events # stored

\* C20: an event ingestion, an event query, a session update or a report request
\* leaves every stored event stored with all its fields, and an ingestion that
\* succeeds adds exactly one event
AppendOnly ==
    [][(\/ Answered("POST /api/events") /\ \E body \in EventBodies : ReqPostEvent(body)
        \/ /\ Answered("GET /api/events")
           /\ \E query \in Queries :
                  response'[1].request = <<query>> /\ ReqGetEvents(query)
        \/ Answered("PUT /api/sessions") /\ \E body \in PutBodies : ReqPutSession(body)
        \/ /\ Answered("GET /api/reports")
           /\ \E sid \in OptIds :
                  response'[1].request = <<sid, "json">> /\ ReqGetReport(sid, "json"))
       => /\ \A i \in 1..Len(events) : \E j \in 1..Len(events') : events'[j] = events[i]
          /\ Len(events') = Len(events)
                + (IF response'[1].op = "POST /api/events" /\ response'[1].code = 201
                   THEN 1 ELSE 0)]_vars

\* an event query has sorted the store, newest first, and both events that were
\* ingested are stored
AppendOnlyWitness ==
    /\ response # <<>>
    /\ response[1].op = "GET /api/events"
    /\ Len(events) = 2
    /\ events[1].timestamp > events[2].timestamp

\* the stored events a query asks for
Matching(es, query) ==
    {i \in 1..Len(es) :
        /\ query.sessionId # <<>> => es[i].sessionId = query.sessionId[1]
        /\ query.type # <<>> => es[i].type = query.type[1]
        /\ query.severity # <<>> => es[i].severity = query.severity[1]}

\* C21: GET /api/events answers with the total of the stored events that match
\* every given filter and, as data, with the events at positions offset to
\* offset + limit - 1 of a newest-first ordering of them
QueryPage ==
    [][\A query \in PageQueries :
          (/\ Answered("GET /api/events")
           /\ response'[1].request = <<query>>
           /\ ReqGetEvents(query))
          => LET page == response'[1].data[1]
                 m == Matching(events, query)
                 n == Cardinality(m)
                 rest == IF n > query.offset THEN n - query.offset ELSE 0
             IN /\ page.total = n
                /\ Len(page.data) = (IF rest < query.limit THEN rest ELSE query.limit)
                /\ \A k \in 1..Len(page.data) :
                       /\ \E i \in m : events[i] = page.data[k]
                       /\ \A j \in 1..(k - 1) : page.data[j].id # page.data[k].id
                       /\ Cardinality({i \in m : events[i].timestamp > page.data[k].timestamp})
                              < query.offset + k
                       /\ Cardinality({i \in m : events[i].timestamp >= page.data[k].timestamp})
                              >= query.offset + k]_vars

\* a filtered query with offset 1 and limit 1 was answered with the older of the
\* two matching events, which is stored first
QueryPageWitness ==
    /\ response # <<>>
    /\ response[1].op = "GET /api/events"
    /\ response[1].request[1].sessionId # <<>>
    /\ response[1].request[1].offset = 1
    /\ response[1].request[1].limit = 1
    /\ response[1].data[1].total = 2
    /\ Len(events) = 2
    /\ events[1].timestamp < events[2].timestamp
    /\ response[1].data[1].data = <<events[1]>>

\* the row generateCSVReport writes for an event
TimelineRow(e) == <<toISOString(e.timestamp), e.type, e.description, e.severity>>

\* the rows of the Events Timeline section of a CSV report of n events
TimelineRows(lines, n) == SubSeq(lines, 24, 23 + n)

\* C22: the Events Timeline section of a CSV report has one row for each event
\* of the session, and its rows ascend by timestamp
TimelineSection ==
    (/\ response # <<>>
     /\ response[1].op = "GET /api/reports"
     /\ response[1].code = 200
     /\ response[1].request[2] = "csv")
    => LET lines == response[1].data[1]
           stored == IF globalEvents = <<>> THEN <<>>
                     ELSE EventsOf(globalEvents[1], response[1].request[1][1])
           n == Len(stored)
           rows == TimelineRows(lines, n)
       IN /\ lines[22] = <<"Events Timeline">>
          /\ lines[23] = <<"Timestamp", "Event Type", "Description", "Severity">>
          /\ lines[24 + n] = <<"">>
          /\ lines[25 + n] = <<"Recommendations">>
          /\ \A i \in 1..n :
                 Cardinality({j \in 1..n : rows[j] = TimelineRow(stored[i])})
                    = Cardinality({j \in 1..n : TimelineRow(stored[j]) = TimelineRow(stored[i])})
          /\ \A i, j \in 1..n : i < j => rows[i][1][2] <= rows[j][1][2]

\* a CSV report was generated for a session whose two events are stored newest
\* first
TimelineSectionWitness ==
    /\ response # <<>>
    /\ response[1].op = "GET /api/reports"
    /\ response[1].code = 200
    /\ response[1].request[2] = "csv"
    /\ globalEvents # <<>>
    /\ LET stored == EventsOf(globalEvents[1], response[1].request[1][1])
       IN Len(stored) = 2 /\ stored[1].timestamp > stored[2].timestamp

\* README, Integrity Scoring: the points an incident of a type costs
ReadmeDeduction(type) ==
    IF type = "focus_lost" THEN 2
    ELSE IF type = "no_face" THEN 5
    ELSE IF type = "multiple_faces" THEN 10
    ELSE 15

\* the event types the README's table prices
ReadmeTypes == {"focus_lost", "no_face", "multiple_faces", "suspicious_object"}

\* C23: the score logDetectionEvent sends after an event of a type the README
\* prices is the session's score less the README's points for that type
ReadmeScoring ==
    \A c \in CallIds :
        (calls[c].pc = "updateSession" /\ calls[c].kind # <<>>
            /\ calls[c].kind[1].type \in ReadmeTypes)
        => calls[c].newScore[1]
              = Max(0, calls[c].snap[1].integrityScore - ReadmeDeduction(calls[c].kind[1].type))

\* the step left the stored record and the stored events of every session but a
\* as they were
OthersUnchanged(a) ==
    \A b \in Ids \ {a} :
        /\ SelectSeq(sessions', LAMBDA x : x.id = b) = SelectSeq(sessions, LAMBDA x : x.id = b)
        /\ EventsOf(events', b) = EventsOf(events, b)
        /\ generateStatistics(EventsOf(events', b)) = generateStatistics(EventsOf(events, b))

Logging == {c \in CallIds : calls[c].pc = "logEvent"}

\* C25: a failed ingestion leaves the recording state and the session with its
\* status and score as they were; while its error is shown, the events the effect
\* emits are still sent and a served POST /api/events still appends one
LoggingFailureNonFatal ==
    [][/\ \A c \in CallIds :
              LogEventFails(c) => /\ isRecording' = isRecording
                                  /\ isPaused' = isPaused
                                  /\ currentSession' = currentSession
                                  /\ sessions' = sessions
                                  /\ events' = events
       /\ (error # <<>> /\ isRecording /\ Len(emitted') > Len(emitted))
              => Cardinality(Logging') = Cardinality(Logging) + Len(emitted') - Len(emitted)
       /\ (error # <<>> /\ \E c \in CallIds : LogEvent(c))
              => Len(events') = Len(events) + 1]_vars

\* an ingestion has failed and its error is shown while the recording goes on,
\* another event is on its way to the API and an event is stored
LoggingFailureWitness ==
    /\ error = <<"Failed to log event">>
    /\ isRecording
    /\ currentSession # <<>>
    /\ Logging # {}
    /\ events # <<>>

\* the objects of a frame that are over the confidence threshold and of a
\* suspicious class
Qualifying(objects) ==
    Len(SelectSeq(objects, LAMBDA obj :
            obj.confidence > ConfidenceThreshold /\ isSuspiciousObject(obj.class)))

\* C26: once the effect has run for a frame, the suspicious_object events emitted
\* for the frame are as many as the frame's objects over the threshold and of a
\* suspicious class
ObjectRule ==
    \A k \in 1..Len(frames) :
        (k < Len(frames) \/ render # "fresh")
        => Cardinality({i \in 1..Len(emitted) :
                           emitted[i].frame = k /\ emitted[i].type = "suspicious_object"})
              = Qualifying(frames[k].results.objects)

\* the recommendations of the JSON report that was answered
Recommendations == response[1].data[1].integrityAnalysis.recommendations

\* a JSON report was answered
Reported ==
    /\ response # <<>>
    /\ response[1].op = "GET /api/reports"
    /\ response[1].code = 200
    /\ response[1].request[2] = "json"

\* an event that records a communication device
DeviceEvent(e) ==
    \/ e.type = "phone_detected"
    \/ e.type = "suspicious_object" /\ e.description = "cell phone detected in frame"

\* C27: the recommendations hold the device-policy note exactly if the session's
\* log holds an event that records a communication device, whichever of the
\* types phone_detected and suspicious_object it was recorded with
DeviceNote ==
    Reported =>
        LET log == EventsOf(globalEvents[1], response[1].request[1][1])
        IN (\E i \in 1..Len(Recommendations) : Recommendations[i] = "mobile device detected")
              <=> (\E i \in 1..Len(log) : DeviceEvent(log[i]))

\* the notes in their fixed order, and the summary lines
Notes ==
    <<"frequent loss of focus", "mobile device detected", "multiple faces detected",
      "notes detected">>

Summaries ==
    {"excellent session integrity", "good session integrity", "session integrity concerns"}

RECURSIVE ConfidenceSum(_)
\* the sum of the confidences of events that carry one
ConfidenceSum(es) ==
    IF es = <<>> THEN 0 ELSE Head(es).confidence[1] + ConfidenceSum(Tail(es))

\* C29: with no ingestion in flight, a session's average_confidence is the mean
\* of the confidences of its events that carry one, 0.00 included, and the
\* initial 0.00 while no such event has been ingested
AverageConfidence ==
    SvcInFlight = {} =>
        \A i \in 1..Len(dbStats) :
            LET carried == SelectSeq(dbEvents, LAMBDA e :
                               e.session_id = dbStats[i].session_id /\ e.confidence # <<>>)
            IN IF carried = <<>> THEN dbStats[i].average_confidence = 0
               ELSE dbStats[i].average_confidence * Len(carried) = ConfidenceSum(carried)

\* C30: a report requested for a session that POST /api/sessions has stored is
\* answered 200, and its events are the events POST /api/events has stored for
\* that session
ReportReadsStores ==
    [][\A id \in Ids :
          (/\ Answered("GET /api/reports")
           /\ response'[1].request = <<<<id>>, "json">>
           /\ FindSessionIndex(sessions, id) # 0
           /\ ReqGetReport(<<id>>, "json"))
          => /\ response'[1].code = 200
             /\ LET reported == response'[1].data[1].events
                    stored == EventsOf(events, id)
                IN /\ Len(reported) = Len(stored)
                   /\ \A i \in 1..Len(stored) :
                          \E j \in 1..Len(reported) : reported[j] = stored[i]]_vars

\* C31: once the effect has run for the last frame, the focus_lost, multiple_faces
\* and suspicious_object events passed to onDetectionEvent are as many as the
\* onFocusLost, onMultipleFaces and onSuspiciousObject callbacks counted in
\* detectionStats
EmissionPathsAgree ==
    render # "fresh" =>
        /\ Len(EmittedOf("focus_lost")) = detectionStats.totalFocusLossEvents
        /\ Len(EmittedOf("multiple_faces")) = detectionStats.totalMultipleFaceEvents
        /\ Len(EmittedOf("suspicious_object")) = detectionStats.totalSuspiciousObjectEvents

\* C32: a run of the detection-event effect that a re-render without a new
\* detection result causes passes no event to onDetectionEvent
FrameEmitsOnce ==
    [][render = "again" => emitted' = emitted]_vars

\* C33: once the status of a session is completed, no step changes its status,
\* appends an event to its event log or changes its score
CompletedTerminal ==
    [][\A i \in 1..Len(sessions) :
          sessions[i].status = "completed" =>
              /\ EventsOf(events', sessions[i].id) = EventsOf(events, sessions[i].id)
              /\ \A j \in 1..Len(sessions') :
                     sessions'[j].id = sessions[i].id
                         => /\ sessions'[j].status = "completed"
                            /\ sessions'[j].integrityScore = sessions[i].integrityScore]_vars

\* C34: every event in the event store has the sessionId of a session that is in
\* the session store
ReferentialIntegrity ==
    \A k \in 1..Len(events) :
        \E i \in 1..Len(sessions) : sessions[i].id = events[k].sessionId

\* C35: whenever there is a current session, the integrity score the monitoring
\* screen shows is the integrityScore of the current session
ShownScore ==
    currentSession # <<>> => getIntegrityScore = currentSession[1].integrityScore

\* C36: a step that serves GET /api/events, with any filters or none, leaves the
\* event store as it was: the same events in the same order
EventsGetPureRead ==
    [][(/\ Answered("GET /api/events")
        /\ \E query \in Queries :
               response'[1].request = <<query>> /\ ReqGetEvents(query))
       => events' = events]_vars

\* C37: a session is created without endTime; a step that leaves its status other
\* than completed leaves endTime absent, a step that sets the status of a session
\* without endTime to completed sets endTime to the server's time of the update,
\* and no step changes an endTime that is set
EndTimeSetOnce ==
    [][\A j \in 1..Len(sessions') :
          IF \E i \in 1..Len(sessions) : sessions[i].id = sessions'[j].id
          THEN LET before == sessions[FindSessionIndex(sessions, sessions'[j].id)]
                   after == sessions'[j]
               IN IF before.endTime # <<>> THEN after.endTime = before.endTime
                  ELSE IF after.status = "completed" THEN after.endTime = <<now>>
                  ELSE after.endTime = <<>>
          ELSE sessions'[j].endTime = <<>>]_vars

\* a session that was completed at time 0 has been updated again later, to
\* active, and its endTime is still the time of its completion
EndTimeSetOnceWitness ==
    /\ now > 0
    /\ response # <<>>
    /\ response[1].op = "PUT /api/sessions"
    /\ response[1].code = 200
    /\ \E i \in 1..Len(sessions) :
           sessions[i].status = "active" /\ sessions[i].endTime = <<0>>

====
